---- MODULE Spec2Model ----
(***************************************************************************)
(* FCE-Trainer: the task supply and repetition-avoidance engine.           *)
(*                                                                         *)
(* One behaviour follows the tables of ONE exercise type (`part`, fixed    *)
(* in Init): the task tables and show logs of different parts never touch  *)
(* each other (src/app/db.py, _PART_DB_SCHEMA), so the seven stores are    *)
(* verified side by side, one per initial state.                           *)
(*                                                                         *)
(* A task row is known by its id (its position in `tasks`, AUTOINCREMENT)  *)
(* and a summary of its payload: how many numbered gap markers the text    *)
(* holds, how long its answer list is, and so on.                          *)
(*                                                                         *)
(* Three specifications share the variables:                               *)
(*   Spec       the supply side: picker, synthesizer, get_or_create, and   *)
(*              the requests that reach them;                              *)
(*   SpecCheck  the grading side: one stored task and one submitted form,  *)
(*              graded by check_partN, the result cache and its tokens;    *)
(*   SpecPart4  the sentence-transformation table row by row, with the     *)
(*              texts the insert filters of part4.py look at;              *)
(*   SpecRace   get_or_create statement by statement, for requests that    *)
(*              are served at the same time;                               *)
(*   SpecChoice the candidates of the multiple-choice types gap by gap;    *)
(*   SpecAttempts the attempt loops of the generators pass by pass.        *)
(* Each keeps the variables of the others at their initial values.         *)
(***************************************************************************)
EXTENDS Integers, Sequences, FiniteSets, TLC

(* ------------------------------ bounds -------------------------------- *)

\* Exclusion window. src/app/config.py:9 sets LAST_N_SHOWS = 100; the model
\* keeps the name and scales the window down.
LAST_N_SHOWS == 2

\* Items per sentence-transformation set. src/app/config.py:11 sets 6; scaled.
PART4_TASKS_PER_SET == 2

\* Rows a task table may hold, and show events a show log may hold.
MaxTasks == 4
MaxShows == 3

\* Rows the provider may add to a table in one behaviour.
MaxGenerated == 2

\* Longest explanation and word-family texts kept. src/app/config.py:13-14
\* set MAX_EXPLANATION_LEN = 400 and MAX_WORD_FAMILY_LEN = 200; the model
\* keeps the names and scales them down.
MAX_EXPLANATION_LEN == 3
MAX_WORD_FAMILY_LEN == 2

\* Result cache capacity. src/app/config.py:19 sets
\* CHECK_RESULT_CACHE_MAX = 20; the model keeps the name and scales it down.
CHECK_RESULT_CACHE_MAX == 2

\* Items of a graded task (8, 6 or 10 in the stored tasks), and result
\* tokens handed out in one behaviour.
GradedItems == 3
MaxTokens == 3

(* ------------------------- program constants -------------------------- *)

\* @retry(stop=stop_after_attempt(3), ...) on openai_chat_create
STOP_AFTER_ATTEMPT == 3

\* for attempt in range(3) in generate_part3_with_openai
PART3_ATTEMPTS == 3

\* for attempt in range(2) in _generate_tasks_with_openai
PART4_ATTEMPTS == 2

\* max_unchanged = 1 in generate_part3_with_openai
MAX_UNCHANGED == 1

PARTS_RANGE == 1..7

\* the parts of _PART_DB_SCHEMA, served by _generic_get_or_create
GenericParts == {1, 2, 3, 5, 6, 7}

\* None
NoId == 0

(* ------------------------------ helpers -------------------------------- *)

Range(s) == {s[i] : i \in 1..Len(s)}

Min(a, b) == IF a <= b THEN a ELSE b

Max(a, b) == IF a >= b THEN a ELSE b

\* the least and the greatest element of a non-empty set of numbers
SetMin(S) == CHOOSE x \in S : \A y \in S : x <= y

SetMax(S) == CHOOSE x \in S : \A y \in S : y <= x

\* the injective sequences of length n over the set S
RECURSIVE InjSeqs(_, _)
InjSeqs(S, n) ==
  IF n = 0 THEN {<<>>}
  ELSE UNION {{<<x>> \o t : t \in InjSeqs(S \ {x}, n - 1)} : x \in S}

\* the last n elements of s (all of s when it is shorter)
LastN(s, n) == SubSeq(s, Max(1, Len(s) - n + 1), Len(s))

(* ------------------------------- state --------------------------------- *)

VARIABLES
  part,           \* the exercise type this behaviour follows
  openai_client,  \* app.ai.openai_client is not None (OPENAI_API_KEY set)
  tasks,          \* the part's task table: tasks[id] is the row with that id
  shows,          \* the part's show log, in insertion (id) order: task ids
  session,        \* the session contents browsers hold: each the task ids
                  \* of this part that its page shows (<<>>: none yet)
  returned,       \* history: ids returned by successful get_or_create calls
  last,           \* history: what the latest request did
  form,           \* the answers the browser submits with a grade request
  _CHECK_RESULT_CACHE,  \* views/use_of_english.py: token -> CheckResult, in
                  \* insertion order (a dict), one entry <<token, result>> each
  issued,         \* how many result tokens uuid4 has produced
  delivered,      \* history: delivered[token] is how many pages have
                  \* rendered the result cached under the token
  inflight        \* the get_or_create calls in flight: inflight[r] is how far
                  \* the call of request r has come and what it holds

\* the grading side of the request handling
checkVars == <<form, _CHECK_RESULT_CACHE, issued, delivered>>

vars == <<part, openai_client, tasks, shows, session, returned, last,
          form, _CHECK_RESULT_CACHE, issued, delivered, inflight>>

\* what the contract of each part fixes --------------------------------------

\* numbered gap markers "(i)_____" (parts 1-3) or GAPi placeholders (part 6)
RequiredMarkers(p) ==
  CASE p \in {1, 2, 3} -> 8
    [] p = 6 -> 6
    [] OTHER -> 0

\* length of the gaps / answers / questions list
RequiredEntries(p) ==
  CASE p \in {1, 2, 3} -> 8
    [] p \in {5, 6} -> 6
    [] p = 7 -> 10
    [] OTHER -> 1

\* rows -------------------------------------------------------------------

\* A row written by seed_db from the part's list in src/data.py (how many
\* rows the list holds is an input of a behaviour). Seeded
\* sentence-transformation rows need not pass the filters fetch_part4_tasks
\* applies when it reads them (src/data.py: the answers "first time" and
\* "shouldn't have shouted" do not).
SeedRows(p) ==
  {[source |-> "manual", markers |-> RequiredMarkers(p),
    entries |-> RequiredEntries(p), unchanged |-> 0, servable |-> sv] :
     sv \in (IF p = 4 THEN BOOLEAN ELSE {TRUE})}

RECURSIVE SeedTables(_, _)
SeedTables(p, n) ==
  IF n = 0 THEN {<<>>}
  ELSE UNION {{Append(t, r) : r \in SeedRows(p)} : t \in SeedTables(p, n - 1)}

Ids(tb) == 1..Len(tb)

\* how many more generated rows the table takes
Generated(tb) == Cardinality({id \in Ids(tb) : tb[id].source = "openai"})

Room(tb) == Min(MaxTasks - Len(tb), MaxGenerated - Generated(tb))

\* `last` before any request: what a request notes down about itself
\*   fn        the function the request went through ("none": it resolved
\*             nothing and wrote nothing)
\*   next      the request was a "Next" navigation; arg: the task id its
\*             session had on screen
\*   ids       the task ids the function returned (<<>> for None)
\*   path      the branch of get_or_create / fetch_part4_tasks that returned
\*   synth     a generator was entered; calls: provider invocations made;
\*   exhausted every one of them failed; raised: an exception left the call
NoRequest ==
  [fn |-> "none", next |-> FALSE, arg |-> NoId, ids |-> <<>>, path |-> "none",
   synth |-> FALSE, calls |-> 0, exhausted |-> FALSE, raised |-> FALSE]

\* no grade request yet: an empty result cache (the module global after
\* import)
NothingChecked ==
  /\ form = <<>>
  /\ _CHECK_RESULT_CACHE = <<>>
  /\ issued = 0
  /\ delivered = <<>>

\* Requests served at the same time (gunicorn workers / threads of the
\* development server), each on connections of its own.
Requests == {1, 2}

\* a request that is not inside get_or_create
Idle == [pc |-> "idle"]

NothingInFlight == inflight = [r \in Requests |-> Idle]

Init ==
  /\ part \in PARTS_RANGE
  /\ openai_client \in BOOLEAN
  /\ \E n \in 0..MaxTasks : tasks \in SeedTables(part, n)
  /\ shows = <<>>
  /\ session = {<<>>}
  /\ returned = <<>>
  /\ last = NoRequest
  /\ NothingChecked
  /\ NothingInFlight

(* ------------------------- src/app/db.py: picker ----------------------- *)

\* SELECT DISTINCT task_id FROM shows ORDER BY id DESC LIMIT n, as SQLite runs
\* it: the log is scanned from the newest row back, a task id is emitted the
\* first time it is met, and the scan stops after n emitted ids.
RECURSIVE DistinctNewestFirst(_, _, _)
DistinctNewestFirst(sh, n, acc) ==
  IF Len(sh) = 0 \/ Len(acc) >= n THEN acc
  ELSE LET t == sh[Len(sh)]
           rest == SubSeq(sh, 1, Len(sh) - 1)
       IN DistinctNewestFirst(rest, n,
            IF t \in Range(acc) THEN acc ELSE Append(acc, t))

_get_excluded_ids_ShortWindow(sh) == DistinctNewestFirst(sh, LAST_N_SHOWS - 1, <<>>)

_get_excluded_ids(sh) == DistinctNewestFirst(sh, LAST_N_SHOWS, <<>>)

\* excluded list of _pick_one_task_id: the window plus exclude_current
ExcludedWithCurrent(excluded, exclude_current) ==
  IF exclude_current # NoId /\ exclude_current \notin Range(excluded)
  THEN Append(excluded, exclude_current)
  ELSE excluded

\* The ids _pick_one_task_id may return (ORDER BY RANDOM() LIMIT 1); {NoId}
\* when the query yields no row.
_pick_one_task_id(tb, sh, exclude_current) ==
  LET excluded == ExcludedWithCurrent(_get_excluded_ids(sh), exclude_current)
      rows == {id \in Ids(tb) : id \notin Range(excluded)}
  IN IF rows = {} THEN {NoId} ELSE rows

pick_task_id_for_part(p, tb, sh, exclude_current) ==
  IF p \notin GenericParts THEN {NoId}
  ELSE _pick_one_task_id(tb, sh, exclude_current)

\* _record_show: INSERT INTO shows (task_id, shown_at)
_record_show_Twice(sh, task_id) == Append(Append(sh, task_id), task_id)

_record_show(sh, task_id) == Append(sh, task_id)

(* ------------------ src/app/ai/__init__.py: provider ------------------- *)

\* How many invocations in a row the provider may fail (an input of a call).
MaxFails == 3

\* openai_chat_create under @retry(stop=stop_after_attempt(3)): the body is
\* invoked until it returns or has raised STOP_AFTER_ATTEMPT times, and then
\* tenacity raises RetryError. `fails` is the number of invocations the
\* provider fails before it would answer.
openai_chat_create_NoStop(fails) == [ok |-> TRUE, calls |-> fails + 1]

openai_chat_create(fails) ==
  [ok |-> fails < STOP_AFTER_ATTEMPT,
   calls |-> Min(fails + 1, STOP_AFTER_ATTEMPT)]

(* --------------- src/app/parts/part*.py: the synthesizer --------------- *)

\* What the provider may answer. "nojson": no {...} span in the text;
\* "badjson": a span json.loads or the field accesses raise on; "cand": a
\* parsed candidate, summarised by the counts the validators look at.
\*   markers   numbered gap markers found in the text
\*   entries   length of the gaps / answers / questions list
\*   rest_ok   every other structural check of the part passes
\*   unchanged answers equal to their stem (part 3)
\* How a part-3 answer compares with the stem of its gap: "same" is the
\* stem as stored (capitals), "case" the stem's letters in another case,
\* "other" a different word.
StemRelations == {"same", "case", "other"}

\* unchanged_count: answers_str[i].upper() == stems_upper[i], so an answer
\* that differs from its stem by case only is counted too
unchanged_count(rel) ==
  Cardinality({i \in 1..Len(rel) : rel[i] \in {"same", "case"}})

\* The answer lists tried: the count sits on either side of max_unchanged.
AnswerLists ==
  {<<a, b>> \o [i \in 1..(RequiredEntries(3) - 2) |-> "other"] :
     a \in {"same", "case"}, b \in StemRelations}

Candidates(p) ==
  {[kind |-> "cand", markers |-> m, entries |-> n, rest_ok |-> r, unchanged |-> u] :
     m \in (IF RequiredMarkers(p) = 0 THEN {0}
            ELSE {RequiredMarkers(p) - 1, RequiredMarkers(p)}),
     n \in {RequiredEntries(p) - 1, RequiredEntries(p)},
     r \in BOOLEAN,
     u \in (IF p = 3 THEN {unchanged_count(rel) : rel \in AnswerLists} ELSE {0})}

Unparsable ==
  {[kind |-> k, markers |-> 0, entries |-> 0, rest_ok |-> FALSE, unchanged |-> 0] :
     k \in {"nojson", "badjson"}}

Responses(p) == Unparsable \cup Candidates(p)

\* The validation each generate_partN_with_openai applies to a parsed
\* candidate before its INSERT.
\*   part 1: text, len(gaps) == 8, 4 options per gap (the text's markers are
\*           not looked at)
\*   part 2: text, len(answers) == 8, "(i)_____" in text for i = 1..8
\*   part 3: text, len(stems) == 8, len(answers) == 8, the 8 markers,
\*           unchanged_count <= max_unchanged
\*   part 5: title, text, len(questions) == 6, 400..750 words, 4 options
\*   part 6: len(sentences) == 7, len(answers) == 6, 6 GAP placeholders,
\*           answers in range(7)
\*   part 7: 4..6 sections, len(questions) == 10, 550..750 words, labels
Accepts_UnchangedUnchecked(p, c) ==
  /\ c.kind = "cand"
  /\ c.rest_ok
  /\ c.entries = RequiredEntries(p)
  /\ p \in {2, 3, 6} => c.markers = RequiredMarkers(p)

Accepts(p, c) ==
  /\ c.kind = "cand"
  /\ c.rest_ok
  /\ c.entries = RequiredEntries(p)
  /\ p \in {2, 3, 6} => c.markers = RequiredMarkers(p)
  /\ p = 3 => c.unchanged <= MAX_UNCHANGED

\* the row the INSERT writes for an accepted candidate
GeneratedRow(c) ==
  [source |-> "openai", markers |-> c.markers, entries |-> c.entries,
   unchanged |-> c.unchanged, servable |-> TRUE]



\* One try of a generator: the provider call, the parse and the validation.
\* The result is the accepted candidate's row, or no row; with the number of
\* provider invocations and whether the provider answered at all. A table
\* that is full takes no further row.
NoRow == [source |-> "none"]

\* the ways the provider call of one try may go
Calls == {openai_chat_create(f) : f \in 0..MaxFails}

\* the rows the validation may let through to the INSERT
Validated(p, tb) ==
  {IF Accepts(p, c) THEN GeneratedRow(c) ELSE NoRow :
     c \in {r \in Responses(p) : Accepts(p, r) => Room(tb) > 0}}

TryOnce(p, tb) ==
  {[row |-> IF call.ok THEN r ELSE NoRow,
    calls |-> call.calls, answered |-> call.ok] :
     call \in Calls, r \in Validated(p, tb)}

\* the synthesizer's result: the table after it, the ids of the items it
\* returns (<<>> for None / []), provider invocations, whether every one of
\* them failed, and whether an exception left the function
SynthResult(tb, ids, calls, answered) ==
  [tasks |-> tb, ids |-> ids, calls |-> calls,
   exhausted |-> calls > 0 /\ ~answered, raised |-> FALSE]

\* if not openai_client: return None
NotConfigured(tb) == SynthResult(tb, <<>>, 0, FALSE)

\* generate_part{1,2,5,6,7}_with_openai: one try; every exception raised in
\* the try block (RetryError, JSONDecodeError, ...) is caught and gives None.
generate_single_with_openai(p, tb, client) ==
  IF ~client THEN {NotConfigured(tb)}
  ELSE {IF t.row = NoRow THEN SynthResult(tb, <<>>, t.calls, t.answered)
        ELSE SynthResult(Append(tb, t.row), <<Len(tb) + 1>>, t.calls, t.answered) :
          t \in TryOnce(p, tb)}

\* generate_part3_with_openai: for attempt in range(3); an exception, a
\* missing span or a rejected candidate goes on to the next attempt, the
\* first accepted candidate is inserted and returned.
RECURSIVE Part3Attempts(_, _, _, _)
Part3Attempts(tb, attempt, calls, answered) ==
  IF attempt >= PART3_ATTEMPTS THEN {SynthResult(tb, <<>>, calls, answered)}
  ELSE UNION {IF t.row = NoRow
              THEN Part3Attempts(tb, attempt + 1, calls + t.calls,
                                 answered \/ t.answered)
              ELSE {SynthResult(Append(tb, t.row), <<Len(tb) + 1>>,
                                calls + t.calls, TRUE)} :
                t \in TryOnce(3, tb)}

generate_part3_with_openai_NoGuard(tb, client) == Part3Attempts(tb, 0, 0, FALSE)

generate_part3_with_openai(tb, client) ==
  IF ~client THEN {NotConfigured(tb)}
  ELSE Part3Attempts(tb, 0, 0, FALSE)

\* _GENERATE_CONFIG[part]["fn"], the generate_fn of get_or_create
generate_fn(p, tb, client) ==
  IF p = 3 THEN generate_part3_with_openai(tb, client)
  ELSE generate_single_with_openai(p, tb, client)

(* ------------- src/app/db.py: the get-or-create orchestrator ----------- *)

\* what a get_or_create call hands back and leaves behind
\*   task_id the second component of the returned pair (NoId for None)
\*   path    "picker", "generated", "fallback" or "absent"
\*   synth   generate_fn was called; calls, exhausted: as it reported
GocResult(tb, sh, task_id, path, g) ==
  [tasks |-> tb, shows |-> sh, task_id |-> task_id, path |-> path,
   synth |-> g.synth, calls |-> g.calls, exhausted |-> g.exhausted]

NoSynth == [synth |-> FALSE, calls |-> 0, exhausted |-> FALSE]

Synth(g) == [synth |-> TRUE, calls |-> g.calls, exhausted |-> g.exhausted]

\* lines 392-395: if task_id is None: return (None, None); record the show;
\* return (get_task_by_id_for_part(part, task_id), task_id)
ShowAndReturn_NoNoneCheck(tb, sh, task_id, path, g) ==
  GocResult(tb, _record_show(sh, task_id), task_id, path, g)

ShowAndReturn(tb, sh, task_id, path, g) ==
  IF task_id = NoId
  THEN GocResult(tb, sh, NoId, "absent", g)
  ELSE GocResult(tb, _record_show(sh, task_id), task_id, path, g)

\* lines 381-391: SELECT id FROM tasks [WHERE id != ?] ORDER BY RANDOM() LIMIT 1
FallbackRows(tb, exclude_task_id) ==
  LET rows == {id \in Ids(tb) : exclude_task_id = NoId \/ id # exclude_task_id}
  IN IF rows = {} THEN {NoId} ELSE rows

\* lines 371-380: the generation path. The newest row id is read back with
\* SELECT id FROM tasks ORDER BY id DESC LIMIT 1 and recorded as shown.
GenerationPath(p, tb, sh, exclude_task_id, client) ==
  UNION {IF g.ids # <<>>
         THEN {GocResult(g.tasks, _record_show(sh, Len(g.tasks)), Len(g.tasks),
                         "generated", Synth(g))}
         ELSE {ShowAndReturn(g.tasks, sh, id, "fallback", Synth(g)) :
                 id \in FallbackRows(g.tasks, exclude_task_id)} :
           g \in generate_fn(p, tb, client)}

_generic_get_or_create_SynthFirst(p, tb, sh, exclude_task_id, openai_available, client) ==
  IF p \notin GenericParts
  THEN {GocResult(tb, sh, NoId, "absent", NoSynth)}
  ELSE IF openai_available
  THEN GenerationPath(p, tb, sh, exclude_task_id, client)
  ELSE UNION {IF task_id # NoId
              THEN {ShowAndReturn(tb, sh, task_id, "picker", NoSynth)}
              ELSE {ShowAndReturn(tb, sh, id, "fallback", NoSynth) :
                      id \in FallbackRows(tb, exclude_task_id)} :
                task_id \in pick_task_id_for_part(p, tb, sh, exclude_task_id)}

_generic_get_or_create(p, tb, sh, exclude_task_id, openai_available, client) ==
  IF p \notin GenericParts
  THEN {GocResult(tb, sh, NoId, "absent", NoSynth)}
  ELSE UNION {IF task_id # NoId
              THEN {ShowAndReturn(tb, sh, task_id, "picker", NoSynth)}
              ELSE IF openai_available
              THEN GenerationPath(p, tb, sh, exclude_task_id, client)
              ELSE {ShowAndReturn(tb, sh, id, "fallback", NoSynth) :
                      id \in FallbackRows(tb, exclude_task_id)} :
                task_id \in pick_task_id_for_part(p, tb, sh, exclude_task_id)}

\* get_or_create_part1_task() takes no exclude_task_id;
\* get_or_create_partN_item(exclude_task_id=None) for N = 2, 3, 5, 6, 7.
\* Each passes openai_available = (openai_client is not None).
get_or_create(p, tb, sh, exclude_task_id, client) ==
  _generic_get_or_create(p, tb, sh, IF p = 1 THEN NoId ELSE exclude_task_id,
                         client, client)

(* --------- src/app/parts/part4.py: sentence transformations ------------ *)

\* What becomes of one element of the provider's JSON array in the loop of
\* _generate_tasks_with_openai:
\*   "accept"    passes every filter and is inserted
\*   "filtered"  fails a filter (keyword, length, rephrasing, similarity,
\*               duplicate, grammar topic): continue
\*   "malformed" is not an object with string fields: item.get / .strip raises
Items == {"accept", "filtered", "malformed"}

\* arr[:need] for the arrays the provider may answer with
Arrays(need) == UNION {[1..n -> Items] : n \in 0..need}

Accepted(arr) == Cardinality({i \in 1..Len(arr) : arr[i] = "accept"})

\* The loop over arr[:need] on one connection. `pending` rows are inserted
\* and not yet committed; conn.commit() follows the loop. An exception leaves
\* the with block, the connection is closed without a commit and its inserts
\* are rolled back, while `result` keeps the ids it was given.
RECURSIVE Part4Loop(_, _, _, _, _)
Part4Loop(tb, arr, i, pending, result) ==
  IF i > Len(arr)
  THEN [tasks |-> tb \o [k \in 1..pending |-> GeneratedRow(
                           [markers |-> 0, entries |-> 1, unchanged |-> 0])],
        result |-> result, raised |-> FALSE]
  ELSE CASE arr[i] = "accept" ->
              Part4Loop(tb, arr, i + 1, pending + 1,
                        Append(result, Len(tb) + pending + 1))
         [] arr[i] = "filtered" ->
              Part4Loop(tb, arr, i + 1, pending, result)
         [] OTHER ->
              [tasks |-> tb, result |-> result, raised |-> TRUE]

\* for attempt in range(2): need = count - len(result); one provider call;
\* no [...] span gives arr = []; a provider failure, a json.loads error or an
\* exception in the loop is caught by `except Exception` and ends the loop.
\* how the loop may end for the arrays the provider may answer with
Part4Loops(tb, need, result) ==
  {Part4Loop(tb, arr, 1, 0, result) :
     arr \in {a \in Arrays(need) : Accepted(a) <= Room(tb)}}

RECURSIVE Part4Attempts(_, _, _, _, _, _)
Part4Attempts(count, tb, attempt, result, calls, answered) ==
  LET need == count - Len(result)
  IN IF attempt >= PART4_ATTEMPTS \/ need <= 0
     THEN {SynthResult(tb, result, calls, answered)}
     ELSE UNION {
       IF ~call.ok
       THEN {SynthResult(tb, result, calls + call.calls, answered)}
       ELSE {SynthResult(tb, result, calls + call.calls, TRUE)}   \* json.loads raises
            \cup UNION {
              IF done.raised
              THEN {SynthResult(done.tasks, done.result,
                                calls + call.calls, TRUE)}
              ELSE Part4Attempts(count, done.tasks, attempt + 1,
                                 done.result, calls + call.calls, TRUE) :
                done \in Part4Loops(tb, need, result)} :
         call \in Calls}

_generate_tasks_with_openai(count, tb, client) ==
  IF ~client THEN {NotConfigured(tb)}
  ELSE Part4Attempts(count, tb, 0, <<>>, 0, FALSE)

\* record_shows: one INSERT INTO uoe_task_shows per id, in order
record_shows(sh, task_ids) == sh \o task_ids

\* pick_task_ids_from_db(count): SELECT id FROM uoe_tasks WHERE id NOT IN
\* (excluded) ORDER BY ..., RANDOM() LIMIT count * 2
pick_task_ids_from_db(count, tb, sh) ==
  LET excluded == _get_excluded_ids(sh)
      rows == {id \in Ids(tb) : id \notin Range(excluded)}
  IN InjSeqs(rows, Min(Cardinality(rows), count * 2))

\* the loop of fetch_part4_tasks over the picked rows: those that pass the
\* read-time filters, until PART4_TASKS_PER_SET are kept
RECURSIVE FirstServable(_, _, _, _)
FirstServable(tb, ids, i, out) ==
  IF i > Len(ids) \/ Len(out) >= PART4_TASKS_PER_SET THEN out
  ELSE FirstServable(tb, ids, i + 1,
                     IF tb[ids[i]].servable THEN Append(out, ids[i]) ELSE out)

FetchResult(tb, sh, ids, path, g) ==
  [tasks |-> tb, shows |-> sh, ids |-> ids, path |-> path,
   synth |-> g.synth, calls |-> g.calls, exhausted |-> g.exhausted]

\* the database branch of fetch_part4_tasks (lines 154-170)
FromDatabase(tb, sh, g) ==
  {LET out == FirstServable(tb, ids, 1, <<>>)
   IN IF out = <<>> THEN FetchResult(tb, sh, <<>>, "absent", g)
      ELSE FetchResult(tb, record_shows(sh, out), out, "picker", g) :
     ids \in pick_task_ids_from_db(PART4_TASKS_PER_SET * 2, tb, sh)}

fetch_part4_tasks(tb, sh, db_only, client) ==
  IF ~db_only /\ client
  THEN UNION {IF g.ids # <<>>
              THEN {FetchResult(g.tasks, record_shows(sh, g.ids), g.ids,
                                "generated", Synth(g))}
              ELSE FromDatabase(g.tasks, sh, Synth(g)) :
                g \in _generate_tasks_with_openai(PART4_TASKS_PER_SET, tb, client)}
  ELSE FromDatabase(tb, sh, NoSynth)

(* -------------------- src/app/views/use_of_english.py ------------------ *)

\* The Flask session is a signed cookie the browser keeps (app.secret_key in
\* src/app/__init__.py; no server-side session store): a request carries any
\* session content the application has issued, the empty session included,
\* and the response issues the content the handler leaves.

\* session.get(key): the id on screen, None when there is none
Current(c) == IF c = <<>> THEN NoId ELSE c[1]

OneId(id) == IF id = NoId THEN <<>> ELSE <<id>>

\* what a request that went through function fn with result r notes down
Note(fn, next, arg, ids, r) ==
  [fn |-> fn, next |-> next, arg |-> arg, ids |-> ids, path |-> r.path,
   synth |-> r.synth, calls |-> r.calls, exhausted |-> r.exhausted,
   raised |-> FALSE]

\* A request that went through get_or_create with result r: the store after
\* it, and the session keeping the returned id when there is one.
ThroughGetOrCreate(next, c, r) ==
  /\ Len(r.shows) <= MaxShows
  /\ tasks' = r.tasks
  /\ shows' = r.shows
  /\ returned' = IF r.task_id # NoId THEN Append(returned, r.task_id) ELSE returned
  /\ session' = session \cup {IF r.task_id # NoId THEN <<r.task_id>> ELSE c}
  /\ last' = Note("get_or_create", next, IF next THEN Current(c) ELSE NoId,
                  OneId(r.task_id), r)
  /\ UNCHANGED <<part, openai_client>>
  /\ UNCHANGED <<checkVars, inflight>>

\* A request that went through fetch_part4_tasks with result r. "Next" keeps
\* the returned ids or [] in the session, a page load the ids when there are
\* some.
ThroughFetch(next, r) ==
  /\ Len(r.shows) <= MaxShows
  /\ tasks' = r.tasks
  /\ shows' = r.shows
  /\ session' = session \cup {r.ids}
  /\ last' = Note("fetch_part4_tasks", next, NoId, r.ids, r)
  /\ UNCHANGED <<part, openai_client, returned>>
  /\ UNCHANGED <<checkVars, inflight>>

\* a request that resolved nothing and wrote nothing
NothingResolved ==
  /\ last' = NoRequest
  /\ UNCHANGED <<part, openai_client, tasks, shows, session, returned>>
  /\ UNCHANGED <<checkVars, inflight>>

\* GET /use-of-english?part=p: _load_part_items. Part 1, the parts of
\* _PART_TASK_CONFIG (_ensure_part_task) and part 4 resolve items when the
\* session holds none. part4_db_only comes with the request.
LoadPage(c) ==
  IF c # <<>> THEN NothingResolved
  ELSE IF part = 4
  THEN \E db_only \in BOOLEAN :
         \E r \in fetch_part4_tasks(tasks, shows, db_only, openai_client) :
           ThroughFetch(FALSE, r)
  ELSE \E r \in get_or_create(part, tasks, shows, NoId, openai_client) :
         ThroughGetOrCreate(FALSE, c, r)

\* GET /use-of-english?part=p&next=1: _handle_next
HandleNext ==
  IF part = 4
  THEN \E db_only \in BOOLEAN :
         \E r \in fetch_part4_tasks(tasks, shows, db_only, openai_client) :
           ThroughFetch(TRUE, r)
  ELSE \E c \in session :
         \E r \in get_or_create(part, tasks, shows, Current(c), openai_client) :
           ThroughGetOrCreate(TRUE, c, r)

\* POST action=generate_partN: _handle_generate_action calls the generator
\* of _GENERATE_CONFIG and keeps the new item's id in the session; no show is
\* recorded. _GENERATE_CONFIG has no entry for part 4: the request falls
\* through to _handle_check_action.
HandleGenerate ==
  IF part \notin GenericParts THEN NothingResolved
  ELSE \E g \in generate_fn(part, tasks, openai_client) :
         /\ tasks' = g.tasks
         /\ session' = session \cup {g.ids}
         /\ last' = [NoRequest EXCEPT !.fn = "generate", !.ids = g.ids,
                       !.synth = TRUE, !.calls = g.calls,
                       !.exhausted = g.exhausted, !.raised = g.raised]
         /\ UNCHANGED <<part, openai_client, shows, returned>>
         /\ UNCHANGED <<checkVars, inflight>>

\* POST (grade): check_part2, check_part3 and check_part7 resolve an item
\* through get_or_create when the session holds none; the other checkers
\* read the session's item only.
HandleCheck(c) ==
  IF part \in {2, 3, 7} /\ c = <<>>
  THEN \E r \in get_or_create(part, tasks, shows, NoId, openai_client) :
         ThroughGetOrCreate(FALSE, c, r)
  ELSE NothingResolved

Next ==
  \/ \E c \in session : LoadPage(c)
  \/ HandleNext
  \/ HandleGenerate
  \/ \E c \in session : HandleCheck(c)

Spec == Init /\ [][Next]_vars

(* ------------------------- src/app/utils.py ---------------------------- *)

\* Text is a sequence of characters. The gap marker of a sentence
\* transformation, "_____", is kept as one symbol of the sequence.
Whitespace == {" ", "\t"}

GAP == "_____"

\* str.lower on the capitals the texts below use
LowerCase == [A |-> "a", B |-> "b", I |-> "i", R |-> "r"]

lower(s) ==
  [i \in 1..Len(s) |-> IF s[i] \in DOMAIN LowerCase THEN LowerCase[s[i]] ELSE s[i]]

\* str.strip
RECURSIVE lstrip(_)
lstrip(s) ==
  IF s # <<>> /\ Head(s) \in Whitespace THEN lstrip(Tail(s)) ELSE s

RECURSIVE rstrip(_)
rstrip(s) ==
  IF s # <<>> /\ s[Len(s)] \in Whitespace THEN rstrip(SubSeq(s, 1, Len(s) - 1))
  ELSE s

strip(s) == rstrip(lstrip(s))

\* re.sub(r"\s+", " ", s): every run of whitespace becomes one space
RECURSIVE collapse(_)
collapse(s) ==
  IF s = <<>> THEN <<>>
  ELSE IF Head(s) \in Whitespace
  THEN <<" ">> \o collapse(lstrip(s))
  ELSE <<Head(s)>> \o collapse(Tail(s))

norm(s) == collapse(lower(strip(s)))

\* str.split(): the words between runs of whitespace
RECURSIVE split(_, _)
split(s, word) ==
  IF s = <<>> THEN (IF word = <<>> THEN <<>> ELSE <<word>>)
  ELSE IF Head(s) \in Whitespace
  THEN (IF word = <<>> THEN <<>> ELSE <<word>>) \o split(Tail(s), <<>>)
  ELSE split(Tail(s), Append(word, Head(s)))

word_count(s) == Len(split(s, <<>>))

\* difflib.SequenceMatcher(None, a, b) without junk (autojunk only sets in
\* for len(b) >= 200).
\* the length of the common run that starts at a[i] and b[j] and stays
\* within a[..ahi], b[..bhi]
RECURSIVE RunLength(_, _, _, _, _, _)
RunLength(a, b, i, j, ahi, bhi) ==
  IF i > ahi \/ j > bhi \/ a[i] # b[j] THEN 0
  ELSE 1 + RunLength(a, b, i + 1, j + 1, ahi, bhi)

\* find_longest_match(alo, ahi, blo, bhi): the longest common block of
\* a[alo..ahi] and b[blo..bhi]; of the longest ones the block that starts
\* earliest in a, and of those the one that starts earliest in b
find_longest_match(a, b, alo, ahi, blo, bhi) ==
  LET size == [i \in alo..ahi |->
                 [j \in blo..bhi |-> RunLength(a, b, i, j, ahi, bhi)]]
      best == SetMax({size[i][j] : i \in alo..ahi, j \in blo..bhi})
      besti == SetMin({i \in alo..ahi : \E j \in blo..bhi : size[i][j] = best})
      bestj == SetMin({j \in blo..bhi : size[besti][j] = best})
  IN  [i |-> besti, j |-> bestj, size |-> best]

\* get_matching_blocks: the longest match, then the same to its left and
\* to its right; the sum of the sizes of the blocks found
RECURSIVE matches(_, _, _, _, _, _)
matches(a, b, alo, ahi, blo, bhi) ==
  IF alo > ahi \/ blo > bhi THEN 0
  ELSE LET m == find_longest_match(a, b, alo, ahi, blo, bhi)
       IN  IF m.size = 0 THEN 0
           ELSE m.size
                + matches(a, b, alo, m.i - 1, blo, m.j - 1)
                + matches(a, b, m.i + m.size, ahi, m.j + m.size, bhi)

\* the threshold on ratio(), in hundredths
RATIO_PERCENT == 88

\* ratio() >= 0.88, ratio() being 2.0 * matches / (len(a) + len(b)) and 1.0
\* for two empty strings
similar_Lenient(a, b) ==
  IF Len(a) + Len(b) = 0 THEN TRUE
  ELSE 200 * matches(a, b, 1, Len(a), 1, Len(b)) >= 85 * (Len(a) + Len(b))

similar(a, b) ==
  IF Len(a) + Len(b) = 0 THEN TRUE
  ELSE 200 * matches(a, b, 1, Len(a), 1, Len(b))
         >= RATIO_PERCENT * (Len(a) + Len(b))

answers_match(user_val, expected) ==
  LET a == norm(user_val)
      b == norm(expected)
  IN  IF a = b THEN TRUE
      ELSE IF a = <<>> \/ b = <<>> THEN FALSE
      ELSE similar(a, b)

(* ------------------ src/app/parts/part*.py: the graders ----------------- *)

\* form.get(key) of a field the form does not carry: no text, and equal to
\* none (its one symbol is no character)
None == <<"None">>

DigitValue == ("0" :> 0) @@ ("1" :> 1) @@ ("2" :> 2) @@ ("3" :> 3)

\* the value of a non-empty string of digits
RECURSIVE DigitsValue(_)
DigitsValue(d) ==
  IF d = <<>> THEN 0
  ELSE 10 * DigitsValue(SubSeq(d, 1, Len(d) - 1)) + DigitValue[d[Len(d)]]

\* int(v): TypeError for None; otherwise surrounding whitespace is dropped
\* and an optional sign and at least one digit must remain (ValueError)
to_int(v) ==
  IF v = None THEN [ok |-> FALSE, val |-> 0]
  ELSE LET t == strip(v)
           signed == t # <<>> /\ Head(t) \in {"-", "+"}
           digits == IF signed THEN Tail(t) ELSE t
       IN  IF digits = <<>> \/ \E i \in 1..Len(digits) : digits[i] \notin DOMAIN DigitValue
           THEN [ok |-> FALSE, val |-> 0]
           ELSE [ok |-> TRUE,
                 val |-> IF signed /\ Head(t) = "-" THEN 0 - DigitsValue(digits)
                         ELSE DigitsValue(digits)]

\* try: user_int = int(user_val); except (TypeError, ValueError): user_int = -1
user_int_MissingIsZero(v) ==
  IF to_int(v).ok THEN to_int(v).val ELSE 0

user_int(v) ==
  IF to_int(v).ok THEN to_int(v).val ELSE -1

\* (form.get(key) or "").strip()
user_text(v) == IF v = None THEN <<>> ELSE strip(v)

\* score: the loop adds 1 for every correct detail
CountCorrect(details) ==
  Cardinality({i \in 1..Len(details) : details[i].correct})

\* The stored answers the grader of part p reads: the session's task row,
\* or for part 4 the rows of the session's part4_task_ids.
StoredKey(p, tb) ==
  IF p = 4 THEN [i \in 1..Len(tb) |-> tb[i].answer] ELSE tb[1].answers

\* check_part1, check_part5, check_part6 before the explanations: the
\* submitted option index against the stored one
grade_index(p, key, f) ==
  LET details == [i \in 1..Len(key) |->
                    LET d == [correct |-> user_int(f[i]) = key[i],
                              user_val |-> user_int(f[i])]
                    IN  IF p = 1 THEN [expected |-> key[i]] @@ d ELSE d]
  IN  [part |-> p, score |-> CountCorrect(details), total |-> Len(key),
       details |-> details]

\* check_part2, check_part3 before the explanations
grade_text(p, key, f) ==
  LET details == [i \in 1..Len(key) |->
                    [correct |-> answers_match(user_text(f[i]), key[i]),
                     user_val |-> user_text(f[i]), expected |-> key[i]]]
  IN  [part |-> p, score |-> CountCorrect(details), total |-> Len(key),
       details |-> details]

\* check_part4 before the explanations: only an attempted item counts, for
\* total and for score
grade_part4_FixedTotal(key, f) ==
  LET details == [i \in 1..Len(key) |->
                    [correct |-> answers_match(user_text(f[i]), key[i]),
                     user_val |-> user_text(f[i]), expected |-> key[i]]]
  IN  [part |-> 4, score |-> CountCorrect(details), total |-> Len(key),
       details |-> details]

grade_part4(key, f) ==
  LET details == [i \in 1..Len(key) |->
                    [correct |-> answers_match(user_text(f[i]), key[i]),
                     user_val |-> user_text(f[i]), expected |-> key[i]]]
      attempted == {i \in 1..Len(key) : user_text(f[i]) # <<>>}
  IN  [part |-> 4,
       score |-> Cardinality({i \in attempted : details[i].correct}),
       total |-> Cardinality(attempted),
       details |-> details]

\* check_part7 before the explanations: the section letter as submitted
grade_part7(key, f) ==
  LET details == [i \in 1..Len(key) |->
                    [correct |-> user_text(f[i]) = key[i],
                     user_val |-> user_text(f[i])]]
  IN  [part |-> 7, score |-> CountCorrect(details), total |-> Len(key),
       details |-> details]

grade(p, key, f) ==
  IF p \in {1, 5, 6} THEN grade_index(p, key, f)
  ELSE IF p \in {2, 3} THEN grade_text(p, key, f)
  ELSE IF p = 4 THEN grade_part4(key, f)
  ELSE grade_part7(key, f)

(* ---------------------- src/app/ai/explanations.py ---------------------- *)

\* how many explanations fetch_explanations_partN asks for: 8, 6 or 10, the
\* item count of the part, and len(tasks) for part 4
ExplainedItems(p, key) == IF p = 4 THEN Len(key) ELSE GradedItems

\* the text of an element of the provider's JSON array: longer than
\* MAX_EXPLANATION_LEN, with a space where the cut falls
to_be == <<"t", "o", " ", "b", "e">>

\* One element of the provider's JSON array: some text, or nothing. Part 3
\* asks for objects with the two keys; an element that is no object counts
\* as {}.
Elements(p) ==
  IF p = 3
  THEN {[explanation |-> to_be, word_family |-> to_be],
        [explanation |-> <<>>, word_family |-> to_be],
        [explanation |-> <<>>, word_family |-> <<>>]}
  ELSE {to_be, <<>>}

SomeText(p) ==
  IF p = 3 THEN [explanation |-> to_be, word_family |-> to_be] ELSE to_be

\* s[:n]
Take(s, n) == SubSeq(s, 1, Min(n, Len(s)))

\* What fetch_explanations_partN makes of an element: str(arr[i]).strip(),
\* and for part 3 each of the two texts stripped and cut
fetched(p, e) ==
  IF p = 3
  THEN [explanation |-> Take(strip(e.explanation), MAX_EXPLANATION_LEN),
        word_family |-> Take(strip(e.word_family), MAX_WORD_FAMILY_LEN)]
  ELSE strip(e)

\* What the provider does with the explanation request: it fails `fails`
\* times in a row before it answers with
\*   "nojson"   text without a [...] span
\*   "badjson"  a span json.loads raises on
\*   "array"    a JSON array, arr
\* The arrays tried are one too short, exact and one too long; the first
\* element varies, the others carry text.
ExplanationOutcomes(p, key) ==
  LET n == ExplainedItems(p, key)
  IN  {[fails |-> f, kind |-> k, arr |-> <<>>] :
         f \in {0, STOP_AFTER_ATTEMPT}, k \in {"nojson", "badjson"}}
      \cup
      {[fails |-> 0, kind |-> "array",
        arr |-> [i \in 1..len |-> IF i = 1 THEN first ELSE SomeText(p)]] :
         len \in {n - 1, n, n + 1}, first \in Elements(p)}

\* fetch_explanations_partN: [] without a client, on too few details, when
\* openai_chat_create raises, and on every response that is not an array of
\* at least n elements; otherwise the first n elements
fetch_explanations(p, client, key, details, o) ==
  LET n == ExplainedItems(p, key)
  IN  IF ~client \/ key = <<>> \/ Len(details) < n THEN <<>>
      ELSE IF ~openai_chat_create(o.fails).ok THEN <<>>
      ELSE IF o.kind # "array" \/ Len(o.arr) < n THEN <<>>
      ELSE [i \in 1..n |-> fetched(p, o.arr[i])]

\* The loop over the explanations at the end of each check_partN: it writes
\* detail["explanation"] (part 3: and detail["word_family"]) and nothing
\* else. check_part1 writes every explanation as it is, the others the
\* non-empty ones as str(exp)[:MAX_EXPLANATION_LEN].strip().
Explained(p, d, e) ==
  IF p = 1 THEN [explanation |-> e] @@ d
  ELSE IF p = 3
  THEN (IF e.explanation # <<>>
        THEN [explanation |-> strip(Take(e.explanation, MAX_EXPLANATION_LEN))]
        ELSE <<>>)
       @@ (IF e.word_family # <<>>
           THEN [word_family |-> strip(Take(e.word_family, MAX_WORD_FAMILY_LEN))]
           ELSE <<>>)
       @@ d
  ELSE IF e # <<>> THEN [explanation |-> strip(Take(e, MAX_EXPLANATION_LEN))] @@ d
  ELSE d

enrich_MarksCorrect(p, result, explanations) ==
  [result EXCEPT !.details =
     [i \in 1..Len(result.details) |->
        IF i <= Len(explanations)
        THEN [correct |-> TRUE] @@ Explained(p, result.details[i], explanations[i])
        ELSE result.details[i]]]

enrich(p, result, explanations) ==
  [result EXCEPT !.details =
     [i \in 1..Len(result.details) |->
        IF i <= Len(explanations)
        THEN Explained(p, result.details[i], explanations[i])
        ELSE result.details[i]]]

\* check_partN(None, form) for the session's stored task
check_part_ProviderDecides(p, tb, f, client, o) ==
  LET key == StoredKey(p, tb)
      graded == grade(p, key, f)
      result == enrich(p, graded, fetch_explanations(p, client, key, graded.details, o))
  IN  IF client /\ ~openai_chat_create(o.fails).ok
      THEN [result EXCEPT !.score = 0]
      ELSE result

check_part(p, tb, f, client, o) ==
  LET key == StoredKey(p, tb)
      graded == grade(p, key, f)
  IN  enrich(p, graded, fetch_explanations(p, client, key, graded.details, o))

(* ------- src/app/views/use_of_english.py: grading and the result ------- *)

\* the texts the stored answers and the submissions are drawn from
receive == <<"r", "e", "c", "e", "i", "v", "e">>

recieve == <<"r", "e", "c", "i", "e", "v", "e">>

Receive == <<" ", "R", "e", "c", "e", "i", "v", "e", "\t">>

right == <<"r", "i", "g", "h", "t">>

wrong == <<"w", "r", "o", "n", "g">>

at == <<"a", "t">>

i_be_at == <<"i", " ", "b", "e", " ", "a", "t">>

I_Be_At == <<"I", " ", " ", "B", "e", " ", "a", "t">>

\* The stored task a grade request reads, by part: one row with
\* GradedItems answers, and for part 4 the rows of one set.
StoredTasks(p) ==
  IF p \in {1, 5, 6}
  THEN {<<[answers |-> [i \in 1..GradedItems |->
                         IF i = 1 THEN 1 ELSE IF i = 2 THEN 2 ELSE 0]]>>}
  ELSE IF p \in {2, 3}
  THEN {<<[answers |-> [i \in 1..GradedItems |->
                         IF i = 1 THEN receive ELSE IF i = 2 THEN right ELSE at]]>>}
  ELSE IF p = 4
  THEN {[i \in 1..n |-> [answer |-> IF i = 1 THEN i_be_at ELSE receive]] :
          n \in 1..PART4_TASKS_PER_SET}
  ELSE {<<[answers |-> [i \in 1..GradedItems |->
                         IF i = 2 THEN <<"B">> ELSE <<"A">>]]>>}

\* The forms a browser submits for such a task: per item a field value, or
\* None for a field left out.
FieldValues(p, i) ==
  IF p \in {1, 5, 6}
  THEN (IF i = 1 THEN {<<"1">>, <<" ", "1">>, <<"2">>}
        ELSE IF i = 2 THEN {None, <<>>, <<"x">>, <<"-", "1">>, <<"2">>}
        ELSE {<<"0">>})
  ELSE IF p \in {2, 3}
  THEN (IF i = 1 THEN {recieve, receive, Receive}
        ELSE IF i = 2 THEN {None, wrong, right}
        ELSE {at})
  ELSE IF p = 4
  THEN (IF i = 1 THEN {None, <<" ">>, I_Be_At, wrong}
        ELSE {<<>>, recieve, receive})
  ELSE (IF i = 1 THEN {<<"A">>, <<"a">>, <<" ", "A">>}
        ELSE IF i = 2 THEN {None, <<"B">>}
        ELSE {<<"B">>})

Forms(p, tb) ==
  LET n == Len(StoredKey(p, tb))
  IN  {f \in [1..n -> UNION {FieldValues(p, i) : i \in 1..n}] :
         \A i \in 1..n : f[i] \in FieldValues(p, i)}

\* `last` of a grade request and of a page read
\*   token   the token the request made or carried (0: none)
\*   result  the CheckResult it computed or rendered
\*   provider  what became of the grade request's explanation call
\*   calls     how often the request invoked the provider
NoResult == [part |-> 0, score |-> 0, total |-> 0, details |-> <<>>]

Checked(fn, token, result, provider, calls) ==
  [fn |-> fn, token |-> token, result |-> result, provider |-> provider,
   calls |-> calls]

\* the explanation call of a grade request, as the request saw it
Provider(p, client, key, o) ==
  IF ~client THEN "unconfigured"
  ELSE IF ~openai_chat_create(o.fails).ok THEN "raised"
  ELSE IF o.kind # "array" \/ Len(o.arr) < ExplainedItems(p, key) THEN "malformed"
  ELSE "answered"

\* The provider invocations of fetch_explanations_partN: none when it
\* returns [] before the call, otherwise those of its one
\* openai_chat_create call, which tenacity repeats while the body raises.
Invocations(p, client, key, o) ==
  IF ~client \/ key = <<>> THEN 0 ELSE openai_chat_create(o.fails).calls

\* _CHECK_RESULT_CACHE.pop(next(iter(_CHECK_RESULT_CACHE))) when
\* len(_CHECK_RESULT_CACHE) >= CHECK_RESULT_CACHE_MAX: the first key of a
\* dict is the earliest inserted of those present
evict_Newest(cache) ==
  IF Len(cache) >= CHECK_RESULT_CACHE_MAX THEN SubSeq(cache, 1, Len(cache) - 1)
  ELSE cache

evict(cache) ==
  IF Len(cache) >= CHECK_RESULT_CACHE_MAX THEN Tail(cache) ELSE cache

\* token in _CHECK_RESULT_CACHE
Cached(cache, token) == \E i \in 1..Len(cache) : cache[i][1] = token

\* _CHECK_RESULT_CACHE[token]
Lookup(cache, token) ==
  cache[CHOOSE i \in 1..Len(cache) : cache[i][1] = token][2]

\* _CHECK_RESULT_CACHE.pop(token): the cache without the entry
pop_Keeps(cache, token) == cache

pop(cache, token) ==
  LET i == CHOOSE k \in 1..Len(cache) : cache[k][1] = token
  IN  SubSeq(cache, 1, i - 1) \o SubSeq(cache, i + 1, Len(cache))

\* POST (grade): _handle_check_action. The checker grades the session's
\* task against the form and asks for explanations; the result goes into
\* the cache under a fresh uuid4 token, after the eviction, and the browser
\* is redirected to the page with ?check_result_token=token.
_handle_check_action ==
  /\ issued < MaxTokens
  /\ \E o \in ExplanationOutcomes(part, StoredKey(part, tasks)) :
       LET result == check_part(part, tasks, form, openai_client, o)
           token == issued + 1
       IN  /\ _CHECK_RESULT_CACHE' = Append(evict(_CHECK_RESULT_CACHE), <<token, result>>)
           /\ issued' = token
           /\ delivered' = Append(delivered, 0)
           /\ last' = Checked("check", token, result,
                              Provider(part, openai_client,
                                       StoredKey(part, tasks), o),
                              Invocations(part, openai_client,
                                          StoredKey(part, tasks), o))
  /\ UNCHANGED <<part, openai_client, tasks, shows, session, returned, form, inflight>>

\* GET /use-of-english?part=p&check_result_token=token: the result is taken
\* out of the cache when the token is a key of it, and rendered. The token
\* is one a redirect has handed out.
use_of_english(token) ==
  /\ token \in 1..issued
  /\ IF Cached(_CHECK_RESULT_CACHE, token)
     THEN /\ _CHECK_RESULT_CACHE' = pop(_CHECK_RESULT_CACHE, token)
          /\ delivered' = [delivered EXCEPT ![token] = @ + 1]
          /\ last' = Checked("page", token, Lookup(_CHECK_RESULT_CACHE, token), "none", 0)
     ELSE /\ _CHECK_RESULT_CACHE' = _CHECK_RESULT_CACHE
          /\ delivered' = delivered
          /\ last' = Checked("page", token, NoResult, "none", 0)
  /\ UNCHANGED <<part, openai_client, tasks, shows, session, returned, form, issued,
                 inflight>>

\* One behaviour follows one stored task and one form: the same submission,
\* graded as often as it is posted.
InitCheck ==
  /\ part \in PARTS_RANGE
  /\ openai_client \in BOOLEAN
  /\ tasks \in StoredTasks(part)
  /\ form \in Forms(part, tasks)
  /\ shows = <<>>
  /\ session = {[i \in 1..Len(tasks) |-> i]}
  /\ returned = <<>>
  /\ last = Checked("none", 0, NoResult, "none", 0)
  /\ _CHECK_RESULT_CACHE = <<>>
  /\ issued = 0
  /\ delivered = <<>>
  /\ NothingInFlight

NextCheck ==
  \/ _handle_check_action
  \/ \E token \in 1..MaxTokens : use_of_english(token)

SpecCheck == InitCheck /\ [][NextCheck]_vars

(* ---- src/app/parts/part4.py: the rows of the sentence-transformation ---- *)
(* ---- table, item by item                                             ---- *)

\* a run of two to four underscores: a gap that is not the marker
SHORT_GAP == "__"

\* str.upper on the letters the texts below use
UpperCase == [a |-> "A", b |-> "B", i |-> "I", r |-> "R"]

upper(s) ==
  [i \in 1..Len(s) |-> IF s[i] \in DOMAIN UpperCase THEN UpperCase[s[i]] ELSE s[i]]

\* "_____" in s
has_gap(s) == \E i \in 1..Len(s) : s[i] = GAP

\* s.replace("_____", t)
RECURSIVE replace_gap(_, _)
replace_gap(s, t) ==
  IF s = <<>> THEN <<>>
  ELSE (IF Head(s) = GAP THEN t ELSE <<Head(s)>>) \o replace_gap(Tail(s), t)

\* re.sub(r"\s+_{2,}\s*", " _____ ", s2), applied when s2 has no marker:
\* a shorter run of underscores after whitespace becomes the marker
RECURSIVE widen_gaps(_)
widen_gaps(s) ==
  IF s = <<>> THEN <<>>
  ELSE IF Head(s) \in Whitespace /\ lstrip(s) # <<>> /\ Head(lstrip(s)) = SHORT_GAP
  THEN <<" ", GAP, " ">> \o widen_gaps(lstrip(Tail(lstrip(s))))
  ELSE <<Head(s)>> \o widen_gaps(Tail(s))

\* sentence2 with the answer in place of the marker
reconstructed(sentence2, answer) == replace_gap(sentence2, strip(answer))

\* re.search(r"\b" + kw + r"\b", norm(answer)) for a one-word keyword
_answer_uses_keyword(answer, keyword) ==
  /\ answer # <<>> /\ keyword # <<>>
  /\ \E w \in Range(split(norm(answer), <<>>)) : w = lower(strip(keyword))

_part4_answer_length_ok(answer) ==
  3 <= word_count(answer) /\ word_count(answer) <= 5

_part4_sentence2_same_as_sentence1(sentence1, sentence2, answer) ==
  IF sentence1 = <<>> \/ sentence2 = <<>> \/ ~has_gap(sentence2) THEN FALSE
  ELSE norm(strip(reconstructed(sentence2, answer))) = norm(sentence1)

\* The rows are read on a connection of their own: the committed rows
\* (the newest 500; the tables here are shorter).
_part4_similar_to_existing(tb, sentence1, sentence2, answer, exclude_ids) ==
  IF sentence1 = <<>> \/ sentence2 = <<>> \/ ~has_gap(sentence2) THEN FALSE
  ELSE LET n1_new == norm(sentence1)
           recon_new == norm(reconstructed(sentence2, answer))
       IN  \E id \in Ids(tb) \ exclude_ids :
             LET n1_old == norm(tb[id].sentence1)
                 recon_old == norm(reconstructed(tb[id].sentence2, tb[id].answer))
             IN  \/ n1_old # <<>> /\ similar(n1_new, n1_old)
                 \/ recon_old # <<>> /\ similar(recon_new, recon_old)

\* src/app/db.py: SELECT 1 FROM uoe_tasks WHERE sentence1 = ? AND keyword = ?
uoe_task_exists(tb, sentence1, keyword) ==
  \E id \in Ids(tb) :
    tb[id].sentence1 = strip(sentence1) /\ tb[id].keyword = upper(strip(keyword))

\* the texts the rows and the provider's items are made of
a_b_c == <<"a", " ", "b", " ", "c">>

a_b_c_d == <<"a", " ", "b", " ", "c", " ", "d">>

A_B_c_d == <<"A", " ", " ", "B", " ", "c", " ", "d">>

gap_d == <<GAP, " ", "d">>

short_gap_d == <<"d", " ", SHORT_GAP, " ", "d">>

c_b_a == <<"c", " ", "b", " ", "a">>

e_gap == <<"e", " ", GAP>>

\* a row of uoe_tasks
Part4Row(s1, kw, s2, ans, source, topic) ==
  [sentence1 |-> s1, keyword |-> kw, sentence2 |-> s2, answer |-> ans,
   source |-> source, grammar_topic |-> topic]

\* src/data.py UOE_SEED_TASKS as seed_db inserts them: a first sentence, a
\* second one with the marker, and the words that fill it
UOE_SEED_TASKS ==
  <<Part4Row(<<"i", " ", "e">>, <<"R">>, <<"i", " ", GAP, " ", "e">>,
             <<"r", " ", "e">>, "manual", ""),
    Part4Row(<<"e", " ", "i">>, <<"I">>, <<GAP, " ", "r">>,
             <<"i", " ", "i">>, "manual", "")>>

\* The elements a provider's JSON array may hold: objects with the five
\* keys, and "other", anything item.get fails on.
ProviderItem(s1, kw, s2, ans, topic) ==
  [kind |-> "object", sentence1 |-> s1, keyword |-> kw, sentence2 |-> s2,
   answer |-> ans, grammar_topic |-> topic]

ProviderItems ==
  {ProviderItem(<<"e", " ", "d">>, <<"b">>, gap_d, a_b_c, "T1"),
   ProviderItem(<<"d", " ", "e">>, <<"B">>, e_gap, c_b_a, "t1"),
   ProviderItem(<<"e", " ", "e">>, <<"b">>, short_gap_d, a_b_c, ""),
   ProviderItem(a_b_c_d, <<"b">>, gap_d, a_b_c, "t2"),
   ProviderItem(A_B_c_d, <<"b">>, gap_d, a_b_c, "t2"),
   ProviderItem(a_b_c_d, <<"b">>, a_b_c_d, a_b_c, "t2"),
   ProviderItem(<<"e", " ", "d">>, <<"d">>, gap_d, a_b_c, "t3"),
   ProviderItem(<<"e", " ", "d">>, <<"b">>, gap_d, <<"a", " ", "b">>, "t3"),
   ProviderItem(<<>>, <<"b">>, gap_d, a_b_c, "t3"),
   [kind |-> "other"]}

\* arr[:need]
ItemArrays(need) == UNION {[1..n -> ProviderItems] : n \in 0..need}

\* lines 108-127: the fields as stripped, and whether the item passes every
\* filter and is inserted
Stripped(item) ==
  LET s2 == strip(item.sentence2)
  IN  [sentence1 |-> strip(item.sentence1),
       keyword |-> upper(strip(item.keyword)),
       sentence2 |-> IF has_gap(s2) THEN s2 ELSE widen_gaps(s2),
       answer |-> strip(item.answer),
       grammar_topic |-> item.grammar_topic]

\* grammar_topic.lower() on the labels the items below carry
topic_lower(topic) == IF topic = "T1" THEN "t1" ELSE topic

Admitted(tb, topics_used_in_batch, t) ==
  /\ t.sentence1 # <<>> /\ t.keyword # <<>> /\ t.sentence2 # <<>> /\ t.answer # <<>>
  /\ _answer_uses_keyword(t.answer, t.keyword)
  /\ _part4_answer_length_ok(t.answer)
  /\ ~_part4_sentence2_same_as_sentence1(t.sentence1, t.sentence2, t.answer)
  /\ ~_part4_similar_to_existing(tb, t.sentence1, t.sentence2, t.answer, {})
  /\ ~uoe_task_exists(tb, t.sentence1, t.keyword)
  /\ ~(t.grammar_topic # "" /\ topic_lower(t.grammar_topic) \in topics_used_in_batch)

\* lines 106-135: the loop over arr[:need] on one connection; the rows
\* inserted so far are `pending` until conn.commit(). The filters read the
\* table through connections of their own and see the committed rows tb.
\* An element item.get fails on ends the loop by an exception: no commit.
RECURSIVE InsertItems(_, _, _, _, _)
InsertItems(tb, arr, i, pending, topics_used_in_batch) ==
  IF i > Len(arr) THEN [tasks |-> tb \o pending, raised |-> FALSE]
  ELSE IF arr[i].kind # "object" THEN [tasks |-> tb, raised |-> TRUE]
  ELSE LET t == Stripped(arr[i])
       IN  IF Admitted(tb, topics_used_in_batch, t)
           THEN InsertItems(tb, arr, i + 1,
                            Append(pending,
                                   Part4Row(t.sentence1, t.keyword, t.sentence2,
                                            t.answer, "openai", t.grammar_topic)),
                            IF t.grammar_topic = "" THEN topics_used_in_batch
                            ELSE topics_used_in_batch \cup {topic_lower(t.grammar_topic)})
           ELSE InsertItems(tb, arr, i + 1, pending, topics_used_in_batch)

\* One provider response handled by _generate_tasks_with_openai: `need`
\* items were asked for and arr came back. Without a client the function
\* returns [] at once.
GenerateItems ==
  /\ \E need \in 1..PART4_TASKS_PER_SET :
       IF ~openai_client
       THEN /\ tasks' = tasks
            /\ last' = [fn |-> "generate", asked |-> need, got |-> 0,
                        raised |-> FALSE]
       ELSE \E arr \in ItemArrays(need) :
              LET r == InsertItems(tasks, arr, 1, <<>>, {})
              IN  /\ Len(r.tasks) <= MaxTasks
                  /\ tasks' = r.tasks
                  /\ last' = [fn |-> "generate", asked |-> need,
                              got |-> Len(arr), raised |-> r.raised]
  /\ UNCHANGED <<part, openai_client, shows, session, returned>>
  /\ UNCHANGED <<checkVars, inflight>>

\* The table after seed_db, which fills it when it is empty.
InitPart4 ==
  /\ part = 4
  /\ openai_client \in BOOLEAN
  /\ tasks = UOE_SEED_TASKS
  /\ shows = <<>>
  /\ session = {<<>>}
  /\ returned = <<>>
  /\ last = [fn |-> "none", asked |-> 0, got |-> 0, raised |-> FALSE]
  /\ NothingChecked
  /\ NothingInFlight

NextPart4 == GenerateItems

SpecPart4 == InitPart4 /\ [][NextPart4]_vars

(* ---- src/app/db.py: _generic_get_or_create, statement by statement ---- *)

\* Every statement of _generic_get_or_create opens a connection of its own
\* (db_connection), and so do the generator's INSERT and _record_show: a
\* request served at the same time may write between any two of them. The
\* two reads of _pick_one_task_id are taken as one step. A call holds
\*   pc       the statement it is about to run
\*   exclude  its exclude_task_id
\*   task_id  the local task_id / row["id"]
\*   item     the "id" of the item generate_fn returned (NoId: none)
\*   path     the branch it is on
InFlight(pc, exclude, task_id, item, path) ==
  [pc |-> pc, exclude |-> exclude, task_id |-> task_id, item |-> item,
   path |-> path]

\* what a call that has returned notes down: the "id" of the item it
\* returned, the task id it returned next to it, and the task id of the
\* show it recorded
Returned(r, item, task_id, shown, path) ==
  [fn |-> "get_or_create", request |-> r, item |-> item, task_id |-> task_id,
   shown |-> shown, path |-> path]

NoReturn == [fn |-> "none", request |-> 0, item |-> NoId, task_id |-> NoId,
             shown |-> NoId, path |-> "none"]

Busy == {r \in Requests : inflight[r] # Idle}

\* a request enters get_or_create_partN_item(exclude_task_id); part 1 takes
\* no exclude_task_id
Enter(r) ==
  /\ inflight[r] = Idle
  /\ Len(shows) + Cardinality(Busy) < MaxShows
  /\ \E exclude_task_id \in (IF part = 1 THEN {NoId} ELSE {NoId} \cup Ids(tasks)) :
       inflight' = [inflight EXCEPT ![r] =
                      InFlight("pick", exclude_task_id, NoId, NoId, "none")]
  /\ UNCHANGED <<part, openai_client, tasks, shows, session, returned, last>>
  /\ UNCHANGED checkVars

\* line 370: task_id = pick_task_id_for_part(part, exclude_current=...)
Pick(r) ==
  /\ inflight[r].pc = "pick"
  /\ \E task_id \in pick_task_id_for_part(part, tasks, shows, inflight[r].exclude) :
       inflight' = [inflight EXCEPT ![r] =
         IF task_id # NoId
         THEN [@ EXCEPT !.pc = "record_show", !.task_id = task_id, !.path = "picker"]
         ELSE IF openai_client
         THEN [@ EXCEPT !.pc = "generate"]
         ELSE [@ EXCEPT !.pc = "fallback"]]
  /\ UNCHANGED <<part, openai_client, tasks, shows, session, returned, last>>
  /\ UNCHANGED checkVars

\* line 372: item = generate_fn(). The generator inserts its row and commits
\* on one connection: tid = cur.lastrowid, and the item it returns is that
\* row, get_task_by_id(tid).
Generate(r) ==
  /\ inflight[r].pc = "generate"
  /\ \E g \in generate_fn(part, tasks, openai_client) :
       /\ tasks' = g.tasks
       /\ inflight' = [inflight EXCEPT ![r] =
            IF g.ids # <<>>
            THEN [@ EXCEPT !.pc = "read_back", !.item = g.ids[1]]
            ELSE [@ EXCEPT !.pc = "fallback"]]
  /\ UNCHANGED <<part, openai_client, shows, session, returned, last>>
  /\ UNCHANGED checkVars

\* lines 374-376: SELECT id FROM tasks ORDER BY id DESC LIMIT 1 on a new
\* connection: the newest row of the table as it is now
ReadBack(r) ==
  /\ inflight[r].pc = "read_back"
  /\ inflight' = [inflight EXCEPT ![r] =
       [@ EXCEPT !.pc = "record_show", !.task_id = Len(tasks),
                 !.path = "generated"]]
  /\ UNCHANGED <<part, openai_client, tasks, shows, session, returned, last>>
  /\ UNCHANGED checkVars

\* lines 381-393: the unconstrained pick; (None, None) when it finds no row
Fallback(r) ==
  /\ inflight[r].pc = "fallback"
  /\ \E id \in FallbackRows(tasks, inflight[r].exclude) :
       IF id = NoId
       THEN /\ inflight' = [inflight EXCEPT ![r] = Idle]
            /\ last' = Returned(r, NoId, NoId, NoId, "absent")
       ELSE /\ inflight' = [inflight EXCEPT ![r] =
                 [@ EXCEPT !.pc = "record_show", !.task_id = id,
                           !.path = "fallback"]]
            /\ last' = last
  /\ UNCHANGED <<part, openai_client, tasks, shows, session, returned>>
  /\ UNCHANGED checkVars

\* lines 378-379 and 394-395: record_show_for_part(part, task_id) and the
\* return: (item, row["id"]) on the generation path, otherwise
\* (get_task_by_id_for_part(part, task_id), task_id)
RecordShowAndReturn(r) ==
  /\ inflight[r].pc = "record_show"
  /\ LET c == inflight[r]
     IN  /\ shows' = _record_show(shows, c.task_id)
         /\ returned' = Append(returned, c.task_id)
         /\ last' = Returned(r, IF c.path = "generated" THEN c.item ELSE c.task_id,
                             c.task_id, c.task_id, c.path)
  /\ inflight' = [inflight EXCEPT ![r] = Idle]
  /\ UNCHANGED <<part, openai_client, tasks, session>>
  /\ UNCHANGED checkVars

InitRace ==
  /\ part \in GenericParts
  /\ openai_client \in BOOLEAN
  /\ \E n \in 0..MaxTasks : tasks \in SeedTables(part, n)
  /\ shows = <<>>
  /\ session = {<<>>}
  /\ returned = <<>>
  /\ last = NoReturn
  /\ NothingChecked
  /\ NothingInFlight

NextRace ==
  \E r \in Requests :
    \/ Enter(r)
    \/ Pick(r)
    \/ Generate(r)
    \/ ReadBack(r)
    \/ Fallback(r)
    \/ RecordShowAndReturn(r)

SpecRace == InitRace /\ [][NextRace]_vars

(* ---- src/app/parts/part1.py, part5.py: the candidates of the ---------- *)
(* ---- multiple-choice types, gap by gap                        ---------- *)

\* a JSON value under the key "correct": an integer, a string that is no
\* number, or no such key
JsonInt(n) == [type |-> "int", val |-> n]

JsonStr == [type |-> "str", val |-> 0]

NoKey == [type |-> "missing", val |-> 0]

\* one element of "gaps" / "questions": how many options it lists, and its
\* "correct"
Gap(options, correct) == [options |-> options, correct |-> correct]

\* The candidates tried: the list has the required length or one entry
\* less; its first and its last entry vary, the others are well-formed.
\* rest_ok: text (part 5: and title) present, part 5 within 400..750 words.
CorrectValues == {JsonInt(-1), JsonInt(0), JsonInt(3), JsonInt(4), JsonStr, NoKey}

ChoiceCandidates(p) ==
  {[rest_ok |-> r,
    gaps |-> [i \in 1..n |-> IF i = 1 THEN first
                             ELSE IF i = RequiredEntries(p) THEN final
                             ELSE Gap(4, JsonInt(1))]] :
     r \in BOOLEAN,
     n \in {RequiredEntries(p) - 1, RequiredEntries(p)},
     first \in {Gap(o, c) : o \in {3, 4}, c \in CorrectValues},
     final \in {Gap(4, c) : c \in {JsonInt(2), JsonInt(4), JsonInt(-1)}}}

\* int(g.get("correct", 0)): 0 without the key, ValueError for the string
int_correct(g) ==
  CASE g.correct.type = "int" -> [ok |-> TRUE, val |-> g.correct.val]
    [] g.correct.type = "missing" -> [ok |-> TRUE, val |-> 0]
    [] OTHER -> [ok |-> FALSE, val |-> 0]

\* if correct not in (0, 1, 2, 3): correct = 0
in_range(correct) == IF correct \in {0, 1, 2, 3} THEN correct ELSE 0

\* the loop over gaps / questions: `normalized` as it stands after the
\* loop, or no list when the loop returned None or raised
RECURSIVE normalize(_, _, _)
normalize(gaps, i, normalized) ==
  IF i > Len(gaps) THEN [ok |-> TRUE, normalized |-> normalized]
  ELSE IF gaps[i].options # 4 \/ ~int_correct(gaps[i]).ok
  THEN [ok |-> FALSE, normalized |-> <<>>]
  ELSE normalize(gaps, i + 1,
                 Append(normalized, in_range(int_correct(gaps[i]).val)))

\* a row of part1_tasks / part5_tasks: the normalized "correct" of each gap
ChoiceRow(source, normalized) == [source |-> source, correct |-> normalized]

\* seed_db: the rows of PART1_SEED_TASKS / PART5_SEED_TASKS
ChoiceSeeds(p) ==
  <<ChoiceRow("manual", [i \in 1..RequiredEntries(p) |-> i % 4])>>

\* generate_part1_with_openai / generate_part5_with_openai on a parsed
\* candidate: the table after it and the ids of the item returned
generate_choice_with_openai(p, tb, client, cand) ==
  LET n == normalize(cand.gaps, 1, <<>>)
  IN  IF ~client \/ ~cand.rest_ok \/ Len(cand.gaps) # RequiredEntries(p) \/ ~n.ok
      THEN [tasks |-> tb, ids |-> <<>>]
      ELSE [tasks |-> Append(tb, ChoiceRow("openai", n.normalized)),
            ids |-> <<Len(tb) + 1>>]

\* POST action=generate_part1 / generate_part5 with the provider answering
\* the candidate cand
GenerateChoice ==
  /\ Len(tasks) < MaxTasks - 1
  /\ \E cand \in ChoiceCandidates(part) :
       LET g == generate_choice_with_openai(part, tasks, openai_client, cand)
       IN  /\ tasks' = g.tasks
           /\ session' = session \cup {g.ids}
           /\ last' = [fn |-> "generate", cand |-> cand, ids |-> g.ids]
  /\ UNCHANGED <<part, openai_client, shows, returned>>
  /\ UNCHANGED <<checkVars, inflight>>

InitChoice ==
  /\ part \in {1, 5}
  /\ openai_client \in BOOLEAN
  /\ tasks = ChoiceSeeds(part)
  /\ shows = <<>>
  /\ session = {<<>>}
  /\ returned = <<>>
  /\ last = [fn |-> "none", cand |-> [rest_ok |-> FALSE, gaps |-> <<>>], ids |-> <<>>]
  /\ NothingChecked
  /\ NothingInFlight

NextChoice == GenerateChoice

SpecChoice == InitChoice /\ [][NextChoice]_vars

(* ---- src/app/parts/part*.py: the attempt loops of the generators, ------ *)
(* ---- pass by pass                                                 ------ *)

\* range(3) in generate_part3_with_openai, range(2) in
\* _generate_tasks_with_openai; the other generators have one try block and
\* no loop
Attempts(p) ==
  IF p = 3 THEN PART3_ATTEMPTS ELSE IF p = 4 THEN PART4_ATTEMPTS ELSE 1

\* the number of items a call is to produce: count for part 4
Count(p) == IF p = 4 THEN PART4_TASKS_PER_SET ELSE 1

\* One pass of the loop as the call went through it: the number of items
\* its prompt asked for, the kind of response it got ("raised": none,
\* openai_chat_create raised; "nojson"; "badjson"; "cand"; "array") and the
\* number of rows it persisted.
Pass(need, kind, inserted) ==
  [need |-> need, kind |-> kind, inserted |-> inserted]

\* `last` of a generator call: pc "loop" at the head of the attempt loop
\* and "returned" after the return; the passes begun; `result`, the ids of
\* the items to return; and the passes in order
Generating(pc, attempt, result, passes) ==
  [fn |-> "generate", pc |-> pc, attempt |-> attempt, result |-> result,
   passes |-> passes]

NotGenerating ==
  [fn |-> "none", pc |-> "none", attempt |-> 0, result |-> <<>>,
   passes |-> <<>>]

\* the loop is over: range(n) is used up, or (part 4) need <= 0: break
loop_ends_OneMore(p, attempt, result) ==
  \/ attempt > Attempts(p)
  \/ p = 4 /\ Count(p) - Len(result) <= 0

loop_ends(p, attempt, result) ==
  \/ attempt >= Attempts(p)
  \/ p = 4 /\ Count(p) - Len(result) <= 0

\* the end of a pass that leaves the table tb and the list result behind:
\* stop is a return or a break inside the pass
EndPass(tb, result, pass, stop) ==
  /\ tasks' = tb
  /\ last' = Generating(IF stop \/ loop_ends(part, last.attempt + 1, result)
                        THEN "returned" ELSE "loop",
                        last.attempt + 1, result, Append(last.passes, pass))

\* a generator is called: without a client it returns at once
CallGenerator ==
  /\ last.pc # "loop"
  /\ last' = Generating(IF openai_client THEN "loop" ELSE "returned",
                        0, <<>>, <<>>)
  /\ UNCHANGED <<part, openai_client, tasks, shows, session, returned>>
  /\ UNCHANGED <<checkVars, inflight>>

\* One pass of generate_partN_with_openai, N # 4: the provider call, the
\* parse, the validation and the INSERT. In part 3 an exception, a missing
\* span and a rejected candidate `continue`; in the other parts each of them
\* returns None. An accepted candidate is inserted and returned.
PassSingle ==
  /\ last.pc = "loop" /\ part # 4
  /\ \E call \in Calls :
       IF ~call.ok
       THEN EndPass(tasks, <<>>, Pass(1, "raised", 0), part # 3)
       ELSE \E c \in {r \in Responses(part) :
                        Accepts(part, r) => Room(tasks) > 0} :
              IF Accepts(part, c)
              THEN EndPass(Append(tasks, GeneratedRow(c)), <<Len(tasks) + 1>>,
                           Pass(1, c.kind, 1), TRUE)
              ELSE EndPass(tasks, <<>>, Pass(1, c.kind, 0), part # 3)
  /\ UNCHANGED <<part, openai_client, shows, session, returned>>
  /\ UNCHANGED <<checkVars, inflight>>

\* One pass of _generate_tasks_with_openai: need = count - len(result), the
\* provider call, the parse and the loop over arr[:need]. An exception
\* (provider, json.loads, a malformed element) is caught and breaks the
\* attempt loop; without a [...] span arr is [] and the loop goes on.
PassBatch ==
  /\ last.pc = "loop" /\ part = 4
  /\ LET need == Count(4) - Len(last.result)
     IN  \E call \in Calls :
           IF ~call.ok
           THEN EndPass(tasks, last.result, Pass(need, "raised", 0), TRUE)
           ELSE \/ EndPass(tasks, last.result, Pass(need, "badjson", 0), TRUE)
                \/ EndPass(tasks, last.result, Pass(need, "nojson", 0), FALSE)
                \/ \E done \in Part4Loops(tasks, need, last.result) :
                     EndPass(done.tasks, done.result,
                             Pass(need, "array", Len(done.tasks) - Len(tasks)),
                             done.raised)
  /\ UNCHANGED <<part, openai_client, shows, session, returned>>
  /\ UNCHANGED <<checkVars, inflight>>

InitAttempts ==
  /\ part \in PARTS_RANGE
  /\ openai_client \in BOOLEAN
  /\ \E n \in 0..1 : tasks \in SeedTables(part, n)
  /\ shows = <<>>
  /\ session = {<<>>}
  /\ returned = <<>>
  /\ last = NotGenerating
  /\ NothingChecked
  /\ NothingInFlight

NextAttempts ==
  \/ CallGenerator
  \/ PassSingle
  \/ PassBatch

SpecAttempts == InitAttempts /\ [][NextAttempts]_vars

(* ------------------------------ properties ----------------------------- *)

\* the latest request went through get_or_create
ViaGetOrCreate(l) == l.fn = "get_or_create"

\* the exclude_task_id the latest get_or_create call was given
ExcludeGiven(l) == IF part = 1 THEN NoId ELSE l.arg

\* the single-shot exercise types
SingleShot == {1, 2, 5, 6, 7}

\* C1 (as amended): on a store of at least LAST_N_SHOWS + 2 rows, the id a
\* successful get_or_create call returns differs from the ids returned by
\* the LAST_N_SHOWS successful calls before it.
C1_ExclusionWindow ==
  [][(part \in GenericParts /\ Len(tasks) >= LAST_N_SHOWS + 2
        /\ returned' # returned)
     => returned'[Len(returned')] \notin Range(LastN(returned, LAST_N_SHOWS))]_vars

\* C1 witness: a store of LAST_N_SHOWS + 2 rows has answered more calls than
\* the window is long, the latest through the picker.
C1_Witness ==
  /\ part \in GenericParts
  /\ Len(tasks) >= LAST_N_SHOWS + 2
  /\ Len(returned) > LAST_N_SHOWS
  /\ ViaGetOrCreate(last) /\ last.path = "picker"

\* C1 as stated: the same with a store of at least LAST_N_SHOWS rows.
C1_AsStated ==
  [][(part \in GenericParts /\ Len(tasks) >= LAST_N_SHOWS
        /\ returned' # returned)
     => returned'[Len(returned')] \notin Range(LastN(returned, LAST_N_SHOWS))]_vars

\* C2: a get_or_create call that returns an item appends exactly one row to
\* the show log, holding the returned task id; a call that returns
\* (None, None) appends none.
C2_ShowAccounting ==
  [][ViaGetOrCreate(last')
     => IF last'.ids # <<>>
        THEN shows' = Append(shows, last'.ids[1])
        ELSE shows' = shows]_vars

\* C2 witness: a call has returned a row through the unconstrained fallback,
\* after an earlier show.
C2_Witness ==
  /\ ViaGetOrCreate(last) /\ last.path = "fallback"
  /\ Len(shows) >= 2
  /\ shows[Len(shows)] = last.ids[1]

\* C3: every row of the show log references a task id of the task table.
C3_ShowsReferenceTasks == \A i \in 1..Len(shows) : shows[i] \in Ids(tasks)

\* C4: the exclusion set is exactly the set of distinct task ids in the
\* LAST_N_SHOWS most recently inserted show events.
C4_ExclusionSet ==
  Range(_get_excluded_ids(shows)) = Range(LastN(shows, LAST_N_SHOWS))

\* the exclusion set as C4 defines it
WindowIds(sh) == Range(LastN(sh, LAST_N_SHOWS))

\* C5: pick_task_id_for_part(part, exclude_current) returns a row of the
\* table that is not in the exclusion set (of C4) and is not exclude_current,
\* and returns None exactly when there is no such row.
C5_Picker ==
  part \in GenericParts
    => \A x \in {NoId} \cup Ids(tasks) :
         LET eligible == {id \in Ids(tasks) : id \notin WindowIds(shows) /\ id # x}
         IN pick_task_id_for_part(part, tasks, shows, x) =
              IF eligible = {} THEN {NoId} ELSE eligible

\* C6: a get_or_create issued by "Next" while task x is on screen never
\* returns x; when x is the only row and nothing can be generated it returns
\* (None, None).
C6_NextNeverRepeats ==
  (ViaGetOrCreate(last) /\ last.next /\ last.arg # NoId)
    => /\ last.ids # <<last.arg>>
       /\ (Ids(tasks) = {last.arg} /\ ~openai_client) => last.ids = <<>>

\* C7: with the provider unconfigured and the task table empty,
\* get_or_create returns (None, None), invokes no provider and inserts
\* neither a task row nor a show row.
C7_EmptyAndUnconfigured ==
  [][(~openai_client /\ tasks = <<>> /\ ViaGetOrCreate(last'))
     => /\ last'.ids = <<>>
        /\ last'.calls = 0
        /\ tasks' = tasks
        /\ shows' = shows]_vars

\* C7 witness: such a call has returned (None, None).
C7_Witness ==
  /\ ~openai_client /\ tasks = <<>> /\ shows = <<>>
  /\ ViaGetOrCreate(last) /\ last.path = "absent"

\* C8: no row of an 8-gap cloze type written by a generator has 7 gap
\* markers in its text or 7 entries in its list.
C8_NoSevenGapRow ==
  part \in {1, 2, 3}
    => \A id \in Ids(tasks) :
         tasks[id].source = "openai"
           => /\ tasks[id].markers # RequiredMarkers(part) - 1
              /\ tasks[id].entries # RequiredEntries(part) - 1

\* C9: a generate call of a single-shot type invokes the provider at most 3
\* times; when every invocation failed it returns None, inserts no row and
\* raises nothing.
C9_BoundedRetries ==
  [][(last'.fn = "generate" /\ part \in SingleShot)
     => /\ last'.calls <= 3
        /\ last'.exhausted => /\ last'.ids = <<>>
                              /\ tasks' = tasks
                              /\ ~last'.raised]_vars

\* C9 witness: a generate call whose 3 provider invocations all failed.
C9_Witness ==
  /\ last.fn = "generate" /\ part \in SingleShot
  /\ last.calls = 3 /\ last.exhausted /\ last.ids = <<>>

\* C10: with the provider unconfigured, a generator returns no item, invokes
\* no provider and inserts no row, and neither get_or_create nor
\* fetch_part4_tasks enters a generator.
C10_Unconfigured ==
  [][~openai_client
     => /\ last'.fn = "generate"
             => (last'.ids = <<>> /\ last'.calls = 0 /\ tasks' = tasks)
        /\ last'.fn \in {"get_or_create", "fetch_part4_tasks"}
             => (~last'.synth /\ last'.calls = 0 /\ tasks' = tasks)
        /\ \A g \in _generate_tasks_with_openai(PART4_TASKS_PER_SET, tasks,
                                                openai_client) :
             g.ids = <<>> /\ g.calls = 0 /\ g.tasks = tasks]_vars

\* C10 witness: a generator was entered without a provider and returned None.
C10_Witness ==
  /\ ~openai_client
  /\ last.fn = "generate" /\ last.synth
  /\ last.ids = <<>> /\ last.calls = 0

\* C11: every word-formation row the synthesizer has inserted has at most 1
\* of its 8 answers equal, ignoring case, to the stem of the same gap; a
\* candidate with 2 or more unchanged answers is never inserted.
C11_AtMostOneUnchanged ==
  part = 3 =>
    \A id \in Ids(tasks) :
      tasks[id].source = "openai" => tasks[id].unchanged <= 1

\* a generated word-formation row with exactly one unchanged answer
C11_Witness ==
  /\ part = 3
  /\ last.synth
  /\ \E id \in Ids(tasks) :
       tasks[id].source = "openai" /\ tasks[id].unchanged = 1

\* C20: in a get_or_create call the synthesizer is entered only if the
\* Picker answered absent and the provider is available; the unconstrained
\* pick is made only if the Picker answered absent and synthesis was
\* unavailable or produced no item; and when the Picker finds an eligible
\* row the call makes no provider request and inserts no row.
C20_FallbackOrdering ==
  [][(part \in GenericParts /\ ViaGetOrCreate(last'))
     => LET absent == pick_task_id_for_part(part, tasks, shows,
                                            ExcludeGiven(last')) = {NoId}
        IN  /\ last'.synth => (absent /\ openai_client)
            /\ last'.path = "fallback"
                 => (absent /\ (~openai_client \/ (last'.synth /\ tasks' = tasks)))
            /\ ~absent
                 => (last'.path = "picker" /\ ~last'.synth /\ last'.calls = 0
                     /\ tasks' = tasks)]_vars

\* C20 witness: with a provider, the Picker was exhausted, the synthesizer
\* produced no item and the call fell back to the unconstrained pick.
C20_Witness ==
  /\ openai_client /\ part \in GenericParts
  /\ ViaGetOrCreate(last) /\ last.synth /\ last.calls > 0
  /\ last.path = "fallback" /\ last.ids # <<>>

\* what a graded result says: score, total and the per-item correct flags
Verdict(r) ==
  [score |-> r.score, total |-> r.total,
   correct |-> [i \in 1..Len(r.details) |-> r.details[i].correct]]

\* the results of the grade requests made so far that are still at hand
ResultsAtHand ==
  {_CHECK_RESULT_CACHE[i][2] : i \in 1..Len(_CHECK_RESULT_CACHE)}
    \cup (IF last.fn = "none" THEN {} ELSE {last.result} \ {NoResult})

\* C13: grading is deterministic. All grade requests of a behaviour carry
\* the same form for the same stored task: whatever the explanation
\* provider did in each of them, their results agree on score, total and
\* the per-item correct flags.
C13_Deterministic ==
  \A r1, r2 \in ResultsAtHand : Verdict(r1) = Verdict(r2)

\* C13 witness: two results of the same submission are cached, one with
\* explanations and one without.
C13_Witness ==
  /\ Len(_CHECK_RESULT_CACHE) = 2
  /\ _CHECK_RESULT_CACHE[1][2] # _CHECK_RESULT_CACHE[2][2]
  /\ \E i \in 1..2 :
       "explanation" \in DOMAIN _CHECK_RESULT_CACHE[i][2].details[1]

\* the index-choice exercise types
IndexChoice == {1, 5, 6}

\* C14: index-choice grading. An item is correct iff its submitted value
\* parses as an integer equal to the stored index; a missing or unparsable
\* value is recorded as -1 and is incorrect; the score is the number of
\* correct details.
C14_IndexChoice ==
  (part \in IndexChoice /\ last.fn = "check")
    => LET key == StoredKey(part, tasks)
           d == last.result.details
       IN  /\ Len(d) = Len(key)
           /\ \A i \in 1..Len(key) :
                /\ d[i].correct
                     <=> (to_int(form[i]).ok /\ to_int(form[i]).val = key[i])
                /\ ~to_int(form[i]).ok
                     => (d[i].user_val = -1 /\ ~d[i].correct)
           /\ last.result.score
                = Cardinality({i \in 1..Len(d) : d[i].correct})

\* C14 witness: the submission [1, missing or unparsable, 0] against the key
\* [1, 2, 0] was graded true, false, true with -1 recorded for the second.
C14_Witness ==
  /\ part \in IndexChoice /\ last.fn = "check"
  /\ StoredKey(part, tasks) = <<1, 2, 0>>
  /\ form[1] = <<"1">> /\ form[2] \in {None, <<"x">>} /\ form[3] = <<"0">>
  /\ [i \in 1..3 |-> last.result.details[i].correct] = <<TRUE, FALSE, TRUE>>
  /\ [i \in 1..3 |-> last.result.details[i].user_val] = <<1, -1, 0>>
  /\ last.result.score = 2

\* the free-text exercise types graded with answers_match
FreeText == {2, 3, 4}

\* the rule of answers_match as the contract words it: the normalized
\* strings are equal, or both are non-empty and their similarity ratio,
\* 2 * matched / (sum of the lengths), is at least 0.88
MatchRule(user_val, expected) ==
  LET a == norm(user_val)
      b == norm(expected)
  IN  \/ a = b
      \/ /\ a # <<>> /\ b # <<>>
         /\ 100 * 2 * matches(a, b, 1, Len(a), 1, Len(b)) >= 88 * (Len(a) + Len(b))

\* the correct flag grading gave to a submitted text for an expected one, if
\* the latest grade request had such an item
GradedAs(user_val, expected, flag) ==
  (part \in FreeText /\ last.fn = "check")
    => \A i \in 1..Len(form) :
         (form[i] = user_val /\ StoredKey(part, tasks)[i] = expected)
           => last.result.details[i].correct = flag

\* every free-text item of the latest grade request follows the rule
FollowsMatchRule ==
  (part \in FreeText /\ last.fn = "check")
    => \A i \in 1..Len(form) :
         last.result.details[i].correct
           <=> MatchRule(user_text(form[i]), StoredKey(part, tasks)[i])

Blank(v) == v = None \/ \A i \in 1..Len(v) : v[i] \in Whitespace

\* C16: sentence-transformation grading. total is the number of items with
\* a non-blank submitted answer, a blank item never adds to the score, and
\* 0 <= score <= total <= number of items in the set.
C16_AttemptedTotal ==
  (part = 4 /\ last.fn = "check")
    => LET r == last.result
           attempted == {i \in 1..Len(tasks) : ~Blank(form[i])}
       IN  /\ r.total = Cardinality(attempted)
           /\ r.score = Cardinality({i \in attempted : r.details[i].correct})
           /\ 0 <= r.score /\ r.score <= r.total /\ r.total <= Len(tasks)

\* C16 witness: a set of two items graded with one answer given and one left
\* blank: total 1.
C16_Witness ==
  /\ part = 4 /\ last.fn = "check" /\ Len(tasks) = 2
  /\ Blank(form[1]) /\ ~Blank(form[2])
  /\ last.result.total = 1 /\ last.result.score = 1

\* the fields the explanation step may add to a detail
ExplanationFields == {"explanation", "word_family"}

\* C17: the explanation step is pure enrichment. The result of a grade
\* request has the score, the total and every detail field of the grading
\* before the explanations, and at most explanation / word_family fields
\* more; without a provider, when the provider raises or answers something
\* malformed, it is the grading itself.
C17_PureEnrichment ==
  last.fn = "check"
    => LET graded == grade(part, StoredKey(part, tasks), form)
           r == last.result
       IN  /\ r.part = graded.part /\ r.score = graded.score
           /\ r.total = graded.total
           /\ Len(r.details) = Len(graded.details)
           /\ \A i \in 1..Len(r.details) :
                /\ \A k \in DOMAIN graded.details[i] :
                     k \in DOMAIN r.details[i]
                       /\ r.details[i][k] = graded.details[i][k]
                /\ DOMAIN r.details[i] \ DOMAIN graded.details[i]
                     \subseteq ExplanationFields
           /\ last.provider \in {"unconfigured", "raised", "malformed"}
                => r = graded

\* C17 witness: a grade request whose provider answered, and whose result
\* carries an explanation next to the graded fields.
C17_Witness ==
  /\ last.fn = "check" /\ last.provider = "answered"
  /\ "explanation" \in DOMAIN last.result.details[1]
  /\ last.result.score > 0

\* the token under which a grade request cached its result is still cached
StillCached(token) == Cached(_CHECK_RESULT_CACHE, token)

\* C18 (as amended): a cached result is delivered at most once. A page read
\* carrying a token that is in the cache renders the result cached under it
\* and removes it; a page read carrying any other token renders no result;
\* no token's result is rendered twice, and none that is still cached has
\* been rendered.
C18_SingleUse ==
  [][/\ \A t \in 1..issued' :
          /\ delivered'[t] <= 1
          /\ Cached(_CHECK_RESULT_CACHE', t) => delivered'[t] = 0
     /\ last'.fn = "page"
          => IF StillCached(last'.token)
             THEN /\ last'.result = Lookup(_CHECK_RESULT_CACHE, last'.token)
                  /\ ~Cached(_CHECK_RESULT_CACHE', last'.token)
                  /\ delivered'[last'.token] = delivered[last'.token] + 1
             ELSE /\ last'.result = NoResult
                  /\ delivered' = delivered]_vars

\* C18 witness: a page read has rendered a result and the next page read
\* with the same token rendered none.
C18_Witness ==
  /\ last.fn = "page" /\ last.result = NoResult
  /\ delivered[last.token] = 1

\* C18 as stated: every cached result is delivered exactly once, so a page
\* read carrying the token of a result not delivered yet renders it.
C18_AsStated ==
  [][(last'.fn = "page" /\ delivered[last'.token] = 0)
     => (last'.result # NoResult /\ delivered'[last'.token] = 1)]_vars

\* the tokens of the cache, in insertion order
Tokens(cache) == [i \in 1..Len(cache) |-> cache[i][1]]

\* C19: the result cache never holds more than CHECK_RESULT_CACHE_MAX
\* entries; an insert into a full cache evicts exactly the entry inserted
\* earliest of those present and keeps every other entry.
C19_BoundedCache ==
  [][/\ Len(_CHECK_RESULT_CACHE') <= CHECK_RESULT_CACHE_MAX
     /\ (last'.fn = "check" /\ Len(_CHECK_RESULT_CACHE) = CHECK_RESULT_CACHE_MAX)
          => /\ Range(_CHECK_RESULT_CACHE) \ Range(_CHECK_RESULT_CACHE')
                  = {_CHECK_RESULT_CACHE[1]}
             /\ \A e \in Range(_CHECK_RESULT_CACHE) :
                  e[1] >= _CHECK_RESULT_CACHE[1][1]
             /\ Range(_CHECK_RESULT_CACHE') \ Range(_CHECK_RESULT_CACHE)
                  = {<<last'.token, last'.result>>}]_vars

\* C19 witness: an insert into a full cache has evicted the oldest entry.
C19_Witness ==
  /\ last.fn = "check" /\ issued = CHECK_RESULT_CACHE_MAX + 1
  /\ Tokens(_CHECK_RESULT_CACHE) = [i \in 1..CHECK_RESULT_CACHE_MAX |-> i + 1]
  /\ \A t \in 1..issued : delivered[t] = 0

\* C12: in every row of the sentence-transformation table, seeded or
\* generated, sentence2 with the stored answer in place of the gap marker
\* differs, once normalized, from the normalized sentence1.
C12_NeverTheSameSentence ==
  part = 4 =>
    \A id \in Ids(tasks) :
      norm(reconstructed(tasks[id].sentence2, tasks[id].answer))
        # norm(tasks[id].sentence1)

\* C21: on the generation path of get_or_create the returned task id is the
\* id of the item the call generated and returns, and the show it records
\* references that item, whatever other requests insert meanwhile.
C21_GeneratedIdIsOwn ==
  (last.fn = "get_or_create" /\ last.path = "generated")
    => (last.task_id = last.item /\ last.shown = last.item)

\* C22: every task that becomes a session's current task, through a page
\* load, "Next" or the generate action, has a show recorded for it by the
\* request that presents it, and is inside the exclusion window afterwards.
C22_CurrentTaskIsShown ==
  [][(last'.fn \in {"get_or_create", "fetch_part4_tasks", "generate"}
        /\ last'.ids # <<>>)
     => /\ last'.ids \in session'
        /\ shows' # shows
        /\ \A i \in 1..Len(last'.ids) :
             last'.ids[i] \in Range(_get_excluded_ids(shows'))]_vars

\* C23: no row inserted by the synthesizer has the same (sentence1,
\* upper-cased keyword) pair as any other row of the sentence-transformation
\* table, whether the other row was there before the batch or came with it.
C23_NoDuplicatePair ==
  part = 4 =>
    \A i, j \in Ids(tasks) :
      (i # j /\ tasks[i].source = "openai")
        => <<tasks[i].sentence1, upper(tasks[i].keyword)>>
             # <<tasks[j].sentence1, upper(tasks[j].keyword)>>

\* some gap / question of the candidate has an integer "correct" outside
\* 0..3
OutOfRange(cand) ==
  \E i \in 1..Len(cand.gaps) :
    cand.gaps[i].correct.type = "int" /\ cand.gaps[i].correct.val \notin 0..3

\* C24: a multiple-choice cloze or reading candidate in which some gap or
\* question has a "correct" index outside 0..3 is discarded as a whole: the
\* generator inserts no row and returns None.
C24_OutOfRangeDiscarded ==
  [][(last'.fn = "generate" /\ OutOfRange(last'.cand))
     => (tasks' = tasks /\ last'.ids = <<>>)]_vars

\* the rows the passes of the latest generator call persisted
Persisted(passes) ==
  IF passes = <<>> THEN 0
  ELSE LET RECURSIVE Sum(_)
           Sum(i) == IF i = 0 THEN 0 ELSE passes[i].inserted + Sum(i - 1)
       IN  Sum(Len(passes))

\* C25: the bounds of a generate call. Word formation makes at most 3
\* passes, stops at the first accepted candidate and persists at most one
\* row; sentence transformation makes at most 2 passes, the first asking for
\* the requested count and the second for the items still missing, and
\* persists at most the requested count; the other types make exactly one
\* pass when a provider is configured. A call whose passes are used up has
\* returned.
C25_RetryBounds ==
  last.fn = "generate"
    => LET passes == last.passes
           n == Len(passes)
       IN  /\ n <= Attempts(part)
           /\ n = Attempts(part) => last.pc = "returned"
           /\ Persisted(passes) <= Count(part)
           /\ Len(last.result) <= Count(part)
           /\ part = 3
                => /\ n <= 3
                   /\ \A i \in 1..n : passes[i].inserted = 1
                        => (i = n /\ last.pc = "returned")
           /\ part = 4
                => /\ n <= 2
                   /\ n >= 1 => passes[1].need = PART4_TASKS_PER_SET
                   /\ n = 2 => /\ passes[2].need
                                    = PART4_TASKS_PER_SET - passes[1].inserted
                               /\ passes[2].need > 0
           /\ part \in SingleShot
                => /\ n <= 1
                   /\ (last.pc = "returned" /\ openai_client) => n = 1

\* C25 witness: a word-formation call accepted its third candidate, and a
\* sentence-transformation call made a second pass for the one item missing.
C25_Witness ==
  /\ last.fn = "generate" /\ last.pc = "returned"
  /\ \/ /\ part = 3 /\ Len(last.passes) = 3
        /\ last.passes[3].inserted = 1 /\ last.passes[1].kind = "cand"
     \/ /\ part = 4 /\ Len(last.passes) = 2
        /\ last.passes[1].inserted = 1 /\ last.passes[2].need = 1
        /\ last.passes[2].inserted = 1

\* the exercise types whose generator retries
Retrying == {3, 4}

\* C26: in the retrying generators an unparsable provider response uses up
\* one attempt like a rejected candidate does: nothing of it is persisted,
\* and when it was not the last attempt, the next attempt is made.
C26_UnparsableUsesOneAttempt ==
  (last.fn = "generate" /\ last.pc = "returned" /\ part \in Retrying)
    => \A i \in 1..Len(last.passes) :
         last.passes[i].kind \in {"nojson", "badjson"}
           => /\ last.passes[i].inserted = 0
              /\ i < Attempts(part) => Len(last.passes) > i

\* C27: a grade request invokes the explanation provider at most once; when
\* that invocation fails it is not repeated, and the result carries no
\* explanations.
C27_SingleInvocation ==
  last.fn = "check"
    => /\ last.calls <= 1
       /\ last.provider = "raised"
            => \A i \in 1..Len(last.result.details) :
                 DOMAIN last.result.details[i] \cap ExplanationFields = {}

\* C28: for every exercise type, every explanation attached to a detail of
\* a grade request's result is at most MAX_EXPLANATION_LEN characters long,
\* whatever the provider returned.
C28_ExplanationBounded ==
  last.fn = "check"
    => \A i \in 1..Len(last.result.details) :
         "explanation" \in DOMAIN last.result.details[i]
           => Len(last.result.details[i].explanation) <= MAX_EXPLANATION_LEN

\* C29: sentence transformation follows the get-or-create policy. When the
\* table is not empty, every row of it lies inside the exclusion window and
\* no generator is entered (no provider, or database-only mode), fetching
\* the next set falls back to an unconstrained pick: it returns items and
\* records their shows.
C29_Part4FallsBack ==
  [][(/\ part = 4 /\ last'.fn = "fetch_part4_tasks" /\ ~last'.synth
      /\ tasks # <<>>
      /\ Ids(tasks) \subseteq Range(_get_excluded_ids(shows)))
     => (last'.ids # <<>> /\ shows' = record_shows(shows, last'.ids))]_vars

\* C30: a grade call never resolves a new item: for every exercise type it
\* leaves the task table, the show log and the session's current task as
\* they are and never enters a generator.
C30_CheckResolvesNothing ==
  [][(\E c \in session : HandleCheck(c))
     => (/\ tasks' = tasks /\ shows' = shows /\ session' = session
         /\ ~last'.synth)]_vars

====
